---- MODULE Spec2Model ----
(***************************************************************************)
(* Ingestion-and-retrieval pipeline of the personal brain:                 *)
(*   VectorStore    (src/src/db/vector_store.py)                           *)
(*   OllamaClient   (src/src/llm/ollama_client.py)                         *)
(*   BrainProcessor (src/src/brain_processor.py)                           *)
(* Texts are modelled by an identity, a length and a position in the       *)
(* embedding space; strings that the code rewrites character by character  *)
(* (paths, ids) are sequences of one-character strings.                    *)
(***************************************************************************)
EXTENDS Integers, Sequences, FiniteSets, TLC

VARIABLES components, corpus, notes_collection, journals_collection,
          pc, all_notes, idx, stats, stats_files, clock, log, effects, ret, ops, written,
          previous, requests, export_file, searching, gen

vars == <<components, corpus, notes_collection, journals_collection,
          pc, all_notes, idx, stats, stats_files, clock, log, effects, ret, ops, written,
          previous, requests, export_file, searching, gen>>

(***************************************************************************)
(* Bounds of the model.                                                    *)
(***************************************************************************)
MaxPages == 2

MaxJournals == 1

MaxLimit == 2

MaxOps == 2

MaxChunks == 3

(***************************************************************************)
(* Program constants.                                                      *)
(***************************************************************************)
EnhanceThreshold == 4000

NoDistance == -1

\* the buffer of the file that open(output_path, 'w') returns: the text is
\* written to the disk in pieces of this size, the last one at the close
WriteBuffer == 8192

\* the characters that json.dump writes around the two lists of notes
ExportFrame == 35

\* the characters that json.dump writes for the one page of a list besides
\* its two texts
NoteFrame == 301

\* the same for a journal: its date in place of null, its tag in the list of
\* tags, its title in the front matter and the longer name of its file
JournalFrame == 367

\* json.dump(stats, f, indent=2): the characters of the stats file besides
\* the two times, the duration and the four counters
StatsFrame == 174

(***************************************************************************)
(* Texts.                                                                  *)
(***************************************************************************)
Text(id, len, vec) == [id |-> id, len |-> len, vec |-> vec]

Empty == Text("", 0, 0)

Plain == Text("plain text", EnhanceThreshold - 1, 0)

Markup == Text("![](i.png)", 10, 1)

Long == Text("long text", EnhanceThreshold, 2)

Generated == Text("generated text", 14, 1)

ShortText == Text("short text", 10, 0)

Enhanced == Text("enhanced text", 13, 1)

\* raw text of a page that is mostly markup: long, while its rendering is short
LongMarkup == Text("![](long.png) short text", EnhanceThreshold + 10, 1)

Day1 == "2024-01-15"

Day2 == "2024-01-16"

NoDate == "None"

\* datetime.now(): a reading of the clock is a second and a place within it
NoReading == [second |-> 0, tick |-> 0]

\* the readings that can follow the reading t: later in the same second, or
\* in the next second
LaterReadings(t) ==
    IF t = NoReading THEN {[second |-> 1, tick |-> 0]}
    ELSE {[second |-> t.second, tick |-> t.tick + 1],
          [second |-> t.second + 1, tick |-> 0]}

\* start_time.strftime('%Y%m%d_%H%M%S'): the second of the reading
StatsFileName(start_time) == start_time.second

\* (end_time - start_time).total_seconds()
Duration(start_time, end_time) ==
    <<end_time.second - start_time.second, end_time.tick - start_time.tick>>

\* Python truthiness of a string
Truthy(t) == t.len > 0

Take(s, n) == IF n >= Len(s) THEN s ELSE SubSeq(s, 1, n)

\* the Python slice s[:n]: a negative n counts from the end
Slice(s, n) ==
    IF n >= 0 THEN Take(s, n)
    ELSE IF Len(s) + n > 0 THEN SubSeq(s, 1, Len(s) + n) ELSE <<>>

Abs(x) == IF x < 0 THEN 0 - x ELSE x

(***************************************************************************)
(* VectorStore: two collections, each a sequence of entries in the store's *)
(* native (insertion) order.                                               *)
(***************************************************************************)
Digit(n) == <<"0", "1", "2", "3", "4", "5", "6", "7", "8", "9">>[n + 1]

RECURSIVE NumStr(_)
\* str(n) of an f-string
NumStr(n) == IF n < 10 THEN <<Digit(n)>> ELSE NumStr(n \div 10) \o <<Digit(n % 10)>>

\* path.replace('\\', '_').replace('/', '_')
NoteId(path) == [i \in DOMAIN path |-> IF path[i] \in {"\\", "/"} THEN "_" ELSE path[i]]

\* f"note_{len(self.notes_collection.get()['ids'])}"
FallbackId(notes) == <<"n", "o", "t", "e", "_">> \o NumStr(Len(notes))

RECURSIVE JoinTags(_)
\* ",".join(tags)
JoinTags(tags) ==
    IF tags = <<>> THEN <<>>
    ELSE IF Len(tags) = 1 THEN <<tags[1]>>
    ELSE <<tags[1], ",">> \o JoinTags(Tail(tags))

Metadata(note_data) ==
    [title |-> note_data.title,
     path |-> note_data.path,
     is_journal |-> note_data.is_journal,
     tags |-> JoinTags(note_data.tags),
     journal_date |-> note_data.journal_date,
     last_modified |-> note_data.last_modified]

\* an add that does not look for the id
UpsertAppend(collection, entry) == Append(collection, entry)

\* collection.upsert(ids=[id], documents=[content], metadatas=[metadata])
Upsert(collection, entry) ==
    IF \E i \in DOMAIN collection : collection[i].id = entry.id
    THEN [i \in DOMAIN collection |->
            IF collection[i].id = entry.id THEN entry ELSE collection[i]]
    ELSE Append(collection, entry)

\* an add_note that stores every record in the notes collection
AddNoteAlwaysNotes(notes, journals, note_data, upsert_raises) ==
    LET derived == NoteId(note_data.path)
        note_id == IF derived = <<>> THEN FallbackId(notes) ELSE derived
        entry == [id |-> note_id, content |-> note_data.clean_content,
                  metadata |-> Metadata(note_data)]
    IN  IF ~Truthy(note_data.clean_content) \/ upsert_raises
        THEN [notes |-> notes, journals |-> journals, none |-> TRUE, id |-> <<>>,
              upsert_called |-> Truthy(note_data.clean_content)]
        ELSE [notes |-> Upsert(notes, entry), journals |-> journals,
              none |-> FALSE, id |-> note_id, upsert_called |-> TRUE]

\* VectorStore.add_note; upsert_raises is the store's outcome for the write.
\* The result holds both collections after the call and the returned value.
AddNote(notes, journals, note_data, upsert_raises) ==
    LET derived == NoteId(note_data.path)
        note_id == IF derived = <<>> THEN FallbackId(notes) ELSE derived
        content == note_data.clean_content
        metadata == Metadata(note_data)
        entry == [id |-> note_id, content |-> content, metadata |-> metadata]
        unchanged(called) == [notes |-> notes, journals |-> journals,
                              none |-> TRUE, id |-> <<>>, upsert_called |-> called]
    IN  IF ~Truthy(content) THEN unchanged(FALSE)
        ELSE IF upsert_raises THEN unchanged(TRUE)
        ELSE IF metadata.is_journal
             THEN [notes |-> notes, journals |-> Upsert(journals, entry),
                   none |-> FALSE, id |-> note_id, upsert_called |-> TRUE]
             ELSE [notes |-> Upsert(notes, entry), journals |-> journals,
                   none |-> FALSE, id |-> note_id, upsert_called |-> TRUE]

\* the metadata that add_notes_batch builds: no journal_date for a page
BatchMetadata(note) ==
    IF note.is_journal
    THEN [title |-> note.title,
          path |-> note.path,
          is_journal |-> TRUE,
          journal_date |-> note.journal_date,
          tags |-> JoinTags(note.tags),
          last_modified |-> note.last_modified]
    ELSE [title |-> note.title,
          path |-> note.path,
          is_journal |-> FALSE,
          tags |-> JoinTags(note.tags),
          last_modified |-> note.last_modified]

\* f"note_{len(ids)}" and f"journal_{len(ids)}": the place in the bulk write
BatchFallbackId(is_journal, ids) ==
    (IF is_journal THEN <<"j", "o", "u", "r", "n", "a", "l", "_">>
     ELSE <<"n", "o", "t", "e", "_">>) \o NumStr(Len(ids))

RECURSIVE BatchEntries(_, _)
\* the loops of add_notes_batch over the notes of one kind: the entries of
\* the bulk write gathered so far, followed by those of the remaining notes
BatchEntries(remaining, gathered) ==
    IF remaining = <<>> THEN gathered
    ELSE LET note == Head(remaining)
             derived == NoteId(note.path)
             note_id == IF derived = <<>>
                        THEN BatchFallbackId(note.is_journal, gathered)
                        ELSE derived
         IN  IF ~Truthy(note.clean_content)
             THEN BatchEntries(Tail(remaining), gathered)
             ELSE BatchEntries(Tail(remaining),
                               Append(gathered, [id |-> note_id,
                                                 content |-> note.clean_content,
                                                 metadata |-> BatchMetadata(note)]))

RECURSIVE BulkUpsert(_, _)
\* collection.upsert(ids=ids, documents=documents, metadatas=metadatas)
BulkUpsert(collection, entries) ==
    IF entries = <<>> THEN collection
    ELSE BulkUpsert(Upsert(collection, Head(entries)), Tail(entries))

\* VectorStore.add_notes_batch; the two outcomes are the store's for the two
\* bulk writes.  Nothing is caught: a write that raises ends the call.
AddNotesBatch(notes, journals, notes_data, notes_raises, journals_raises) ==
    LET IsJournalNote(note) == note.is_journal
        IsRegularNote(note) == ~note.is_journal
        regular == BatchEntries(SelectSeq(notes_data, IsRegularNote), <<>>)
        journal == BatchEntries(SelectSeq(notes_data, IsJournalNote), <<>>)
    IN  IF regular # <<>> /\ notes_raises
        THEN [notes |-> notes, journals |-> journals, raised |-> TRUE]
        ELSE IF journal # <<>> /\ journals_raises
             THEN [notes |-> BulkUpsert(notes, regular), journals |-> journals,
                   raised |-> TRUE]
             ELSE [notes |-> BulkUpsert(notes, regular),
                   journals |-> BulkUpsert(journals, journal), raised |-> FALSE]

\* the result records built in VectorStore.search from one query answer;
\* the distance is the one between the embeddings of query and document
WithDistance(collection, query) ==
    [i \in DOMAIN collection |->
        [id |-> collection[i].id,
         content |-> collection[i].content,
         metadata |-> collection[i].metadata,
         distance |-> Abs(query.vec - collection[i].content.vec)]]

\* list.sort(key=distance) is stable: x goes after every element not larger
InsertByDistance(sorted, x) ==
    LET k == Cardinality({i \in DOMAIN sorted : sorted[i].distance <= x.distance})
    IN  SubSeq(sorted, 1, k) \o <<x>> \o SubSeq(sorted, k + 1, Len(sorted))

RECURSIVE SortByDistance(_)
SortByDistance(results) ==
    IF results = <<>> THEN <<>>
    ELSE InsertByDistance(SortByDistance(SubSeq(results, 1, Len(results) - 1)),
                          results[Len(results)])

\* What the store hands back when it is asked for n entries and does not
\* raise.  The code passes the limit of the request on as it is; for a
\* limit below one the answer is the library's: nothing, or every entry
\* (unlimited).
UpTo(entries, n, unlimited) ==
    IF n >= 1 THEN Take(entries, n)
    ELSE IF unlimited THEN entries ELSE <<>>

\* the choices of the library for a limit
LibraryChoices(limit) == IF limit >= 1 THEN {FALSE} ELSE BOOLEAN

\* collection.query(query_texts=[query], n_results=limit): the nearest
\* entries, nearest first; with_distances says whether the answer carries
\* the 'distances' key.
QueryCollection(collection, query, limit, with_distances, unlimited) ==
    LET nearest == UpTo(SortByDistance(WithDistance(collection, query)), limit, unlimited)
    IN  [i \in DOMAIN nearest |->
            IF with_distances THEN nearest[i]
            ELSE [nearest[i] EXCEPT !.distance = NoDistance]]

\* search without the sort
SortResultsSkipped(results) == results

\* results.sort(key=lambda x: x['distance']) when the first result has one
SortResults(results) ==
    IF results # <<>> /\ results[1].distance # NoDistance
    THEN SortByDistance(results)
    ELSE results

\* a selection that takes both collections whatever the name
SelectCollectionsBoth(notes, journals, collection_name) == <<notes, journals>>

\* the collections selected by collection_name, in the order of the code
SelectCollections(notes, journals, collection_name) ==
    (IF collection_name \in {"all", "notes"} THEN <<notes>> ELSE <<>>)
    \o (IF collection_name \in {"all", "journals"} THEN <<journals>> ELSE <<>>)

\* a search that only asks the first of the selected collections
QueryFirstOnly(collections, query, limit, with_distances, unlimited) ==
    IF collections = <<>> THEN <<>>
    ELSE QueryCollection(Head(collections), query, limit, with_distances, unlimited)

RECURSIVE QueryAll(_, _, _, _, _)
\* the loop over the selected collections: the answers, concatenated
QueryAll(collections, query, limit, with_distances, unlimited) ==
    IF collections = <<>> THEN <<>>
    ELSE QueryCollection(Head(collections), query, limit, with_distances, unlimited)
         \o QueryAll(Tail(collections), query, limit, with_distances, unlimited)

\* VectorStore.search; query_raises is the store's outcome for the query.
\* A query that raises in any selected collection empties the whole result;
\* with no collection selected nothing is asked and nothing can raise.
Search(notes, journals, query, collection_name, limit, with_distances, query_raises, unlimited) ==
    LET collections == SelectCollections(notes, journals, collection_name)
    IN  IF collections # <<>> /\ query_raises THEN <<>>
        ELSE Slice(SortResults(QueryAll(collections, query, limit, with_distances,
                                        unlimited)),
                   limit)

\* journals_collection.get(where={"journal_date": date_str}, limit=limit)
GetByDate(collection, date_str, limit, unlimited) ==
    LET Matches(e) == e.metadata.journal_date = date_str
    IN  UpTo(SelectSeq(collection, Matches), limit, unlimited)

\* VectorStore.search_by_date
StoreSearchByDate(journals, date_str, limit, get_raises, unlimited) ==
    IF get_raises THEN <<>>
    ELSE LET found == GetByDate(journals, date_str, limit, unlimited)
         IN  [i \in DOMAIN found |->
                [id |-> found[i].id,
                 content |-> found[i].content,
                 metadata |-> found[i].metadata]]

(***************************************************************************)
(* OllamaClient.  A reply is what the inference service does with one      *)
(* request: status 0 stands for a transport failure (requests.post         *)
(* raises), otherwise the HTTP status and the JSON body; a body of type     *)
(* "malformed" is one that response.json() cannot parse.                   *)
(***************************************************************************)
ReplyOk(text) ==
    [status |-> 200, type |-> "object", keys |-> {"response", "model"}, response |-> text]

ReplyNoResponseKey ==
    [status |-> 200, type |-> "object", keys |-> {"done"}, response |-> Empty]

ReplyNotAnObject ==
    [status |-> 200, type |-> "number", keys |-> {}, response |-> Empty]

ReplyApiError ==
    [status |-> 500, type |-> "object", keys |-> {}, response |-> Empty]

ReplyTransportFailure ==
    [status |-> 0, type |-> "object", keys |-> {}, response |-> Empty]

ReplyMalformedBody ==
    [status |-> 200, type |-> "malformed", keys |-> {}, response |-> Empty]

ErrorDict == [type |-> "object", keys |-> {"error"}, response |-> Empty]

Body(reply) == [type |-> reply.type, keys |-> reply.keys, response |-> reply.response]

\* a prompt built from the task type itself
ProcessNotePromptByTask(note_content, task_type) == <<task_type, note_content>>

\* the prompt templates of process_note
ProcessNotePrompt(note_content, task_type) ==
    CASE task_type = "enhance" ->
            <<"Please enhance this note by improving clarity and organization:", note_content>>
      [] task_type = "summarize" -> <<"Please summarize this note:", note_content>>
      [] task_type = "tag" ->
            <<"Extract key tags from this note as a comma-separated list:", note_content>>
      [] OTHER -> <<"Please enhance this note:", note_content>>

\* a process_note that never gets an answer
ProcessNoteAlwaysError(note_content, task_type, reply) == ErrorDict

\* OllamaClient.process_note: the value handed to the caller
ProcessNote(note_content, task_type, reply) ==
    IF reply.status = 0 THEN ErrorDict
    ELSE IF reply.status = 200
         THEN IF reply.type = "malformed" THEN ErrorDict ELSE Body(reply)
         ELSE ErrorDict

\* the payload that process_note posts to /api/generate
ProcessNoteRequest(note_content, task_type) ==
    [model |-> "mistral:latest",
     prompt |-> ProcessNotePrompt(note_content, task_type),
     stream |-> FALSE]

\* what the inference service does with GET /api/tags
TagsOk(names) == [status |-> 200, type |-> "object", keys |-> {"models"}, models |-> names]

TagsNoModelsKey == [status |-> 200, type |-> "object", keys |-> {"error"}, models |-> <<>>]

TagsMalformedBody == [status |-> 200, type |-> "malformed", keys |-> {}, models |-> <<>>]

TagsApiError == [status |-> 500, type |-> "object", keys |-> {}, models |-> <<>>]

TagsTransportFailure == [status |-> 0, type |-> "object", keys |-> {}, models |-> <<>>]

\* a list_models whose failures reach the caller
ListModelsRaising(reply) ==
    IF reply.status = 200 /\ reply.type = "object" /\ "models" \in reply.keys
    THEN reply.models
    ELSE <<"exception">>

\* OllamaClient.list_models
ListModels(reply) ==
    IF reply.status = 0 THEN <<>>
    ELSE IF reply.status = 200
         THEN IF reply.type = "object" /\ "models" \in reply.keys
              THEN reply.models
              ELSE <<>>
         ELSE <<>>

\* the lines of a streamed answer, as response.iter_lines() delivers them:
\* a keep-alive blank, a JSON object with or without a response fragment
\* (a string, here a sequence of characters), or a line that is not JSON
BlankLine == [kind |-> "blank", keys |-> {}, response |-> <<>>]

Chunk(fragment) == [kind |-> "chunk", keys |-> {"response", "done"}, response |-> fragment]

ChunkNoFragment == [kind |-> "chunk", keys |-> {"done"}, response |-> <<>>]

MalformedLine == [kind |-> "malformed", keys |-> {}, response |-> <<>>]

\* an accumulation that puts the new fragment in front
AccumulatePrepend(full_response, fragment) == fragment \o full_response

\* full_response += chunk["response"]
Accumulate(full_response, fragment) == full_response \o fragment

RECURSIVE Resume(_, _)
\* the loop over response.iter_lines() of the streaming branch, run from
\* where it stands to its next yield or to the end of the generator:
\* json.loads of a malformed line raises into the except clause of generate
Resume(lines, full_response) ==
    IF lines = <<>>
    THEN [kind |-> "return",
          value |-> [type |-> "object", keys |-> {"response", "model"},
                     response |-> full_response]]
    ELSE LET line == Head(lines)
         IN  IF line.kind = "blank" THEN Resume(Tail(lines), full_response)
             ELSE IF line.kind = "malformed" THEN [kind |-> "return", value |-> ErrorDict]
             ELSE IF "response" \in line.keys
                  THEN [kind |-> "yield", chunk |-> line, rest |-> Tail(lines),
                        full_response |-> Accumulate(full_response, line.response)]
                  ELSE Resume(Tail(lines), full_response)

RECURSIVE ReadStream(_, _, _)
\* the streaming branch iterated to its end: what has been yielded and what
\* the generator returns
ReadStream(lines, full_response, yielded) ==
    LET step == Resume(lines, full_response)
    IN  IF step.kind = "return"
        THEN [yielded |-> yielded, returned |-> step.value]
        ELSE ReadStream(step.rest, step.full_response, Append(yielded, step.chunk))

\* OllamaClient.generate has a yield in its body, so a call builds a
\* generator: nothing runs until the caller iterates it.  The streaming
\* branch yields the chunks that carry a fragment; the non-streaming branch
\* yields nothing and its return value ends the iteration.
Generate(prompt, stream, reply) ==
    IF stream
    THEN IF reply.status # 200
         THEN [type |-> "generator", keys |-> {}, yielded |-> <<>>, returned |-> ErrorDict]
         ELSE LET read == ReadStream(reply.lines, <<>>, <<>>)
              IN  [type |-> "generator", keys |-> {},
                   yielded |-> read.yielded, returned |-> read.returned]
    ELSE [type |-> "generator", keys |-> {},
          yielded |-> <<>>,
          returned |-> IF reply.status = 200 /\ reply.type # "malformed"
                       THEN Body(reply)
                       ELSE ErrorDict]

\* llm_response and 'response' in llm_response, for the generator object:
\* the object is truthy and the membership test compares each yielded item
KeyInGenerator(key, generator) ==
    \E i \in DOMAIN generator.yielded : generator.yielded[i] = key

\* a key test that raises on every value without the key
KeyTestOrRaise(key, value) ==
    IF value.type = "object" /\ key \in value.keys THEN "true" ELSE "raises"

\* enhancement and 'response' in enhancement, for a parsed JSON body:
\* "raises" when the body is truthy and not a container of keys
KeyTest(key, value) ==
    IF value.type = "object"
    THEN IF key \in value.keys THEN "true" ELSE "false"
    ELSE "raises"

(***************************************************************************)
(* The notes directory as the parser renders it.                           *)
(***************************************************************************)
Letter(k) == <<"a", "b", "c", "d", "e", "f">>[k]

PageBodies ==
    { [content |-> Empty, clean_content |-> Empty],
      [content |-> Plain, clean_content |-> Plain],
      [content |-> Markup, clean_content |-> Empty],
      [content |-> Long, clean_content |-> Long] }

JournalBodies ==
    { [content |-> Plain, clean_content |-> Plain, journal_date |-> Day1],
      [content |-> Long, clean_content |-> Long, journal_date |-> Day2],
      [content |-> Markup, clean_content |-> Empty, journal_date |-> Day1] }

\* LogseqParser.parse_file for the k-th file of pages/
PageRecord(k, body) ==
    [title |-> Letter(k), path |-> <<"p", "/", Letter(k)>>,
     content |-> body.content, clean_content |-> body.clean_content,
     is_journal |-> FALSE, journal_date |-> NoDate,
     tags |-> <<>>, last_modified |-> "mtime"]

\* LogseqParser.parse_file for the k-th file of journals/
JournalRecord(k, body) ==
    [title |-> Letter(k), path |-> <<"j", "/", Letter(k)>>,
     content |-> body.content, clean_content |-> body.clean_content,
     is_journal |-> TRUE, journal_date |-> body.journal_date,
     tags |-> <<"t">>, last_modified |-> "mtime"]

PageLists ==
    UNION { { [k \in 1..n |-> PageRecord(k, f[k])] : f \in [1..n -> PageBodies] }
            : n \in 0..MaxPages }

JournalLists ==
    UNION { { [k \in 1..n |-> JournalRecord(k, f[k])] : f \in [1..n -> JournalBodies] }
            : n \in 0..MaxJournals }

Corpora == [pages : PageLists, journals : JournalLists]

\* the page of the ingestion scenario, for one raw text of the file
ScenarioPage(content) ==
    [title |-> "T", path |-> <<"p", "a", "g", "e", "s", "/", "t", ".", "m", "d">>,
     content |-> content, clean_content |-> ShortText,
     is_journal |-> FALSE, journal_date |-> NoDate,
     tags |-> <<>>, last_modified |-> "mtime"]

\* the corpora of the scenario: that page alone among the pages
ScenarioCorpora ==
    [pages : {<<ScenarioPage(content)>> : content \in {ShortText, LongMarkup}},
     journals : JournalLists]

NoteReplies ==
    {ReplyOk(Generated), ReplyOk(Enhanced), ReplyOk(Empty), ReplyNoResponseKey,
     ReplyNotAnObject, ReplyApiError, ReplyTransportFailure}

GenerateReplies == {ReplyOk(Generated), ReplyApiError, ReplyTransportFailure}

Queries == {Plain}

Scopes == {"all", "notes", "journals", "tags"}

Dates == {Day1, Day2}

\* the dates asked for: those of the journals and one that no journal has
AskedDates == Dates \cup {"2024-01-17"}

Limits == -1..MaxLimit

(***************************************************************************)
(* BrainProcessor.                                                         *)
(***************************************************************************)
\* is_ready without the test of the vector store
IsReadyNoStore(c) == c.parser /\ c.llm

\* BrainProcessor.is_ready
IsReady(c) == c.parser /\ c.llm /\ c.vector_store

NotReadyStats == [error |-> "BrainProcessor is not ready", status |-> "failed"]

NotReadyResult == <<[error |-> "BrainProcessor is not ready"]>>

NoCall == [op |-> "none"]

EmptySnapshot == [pages |-> <<>>, journals |-> <<>>]

\* the web requests that call the process route of the one shared processor
Requests == {"first", "second"}

\* a request that has not reached process_all_notes
NoRequest == [pc |-> "idle", idx |-> 0, stats |-> [status |-> "none"],
              all_notes |-> EmptySnapshot, export_raised |-> FALSE, flushed |-> 0]

NoStats == [status |-> "none"]

\* the export file before any run: it does not exist
NoExport == [exists |-> FALSE, pieces |-> {}]

\* no search is waiting for the inference service
NoSearch == [op |-> "none"]

\* no generator of a streaming generate exists
NoStream == [state |-> "none"]

NoRun == [runs |-> 0]

\* the state after BrainProcessor.__init__, over a notes directory of corpora
InitOver(corpora) ==
    /\ components \in [parser : BOOLEAN, llm : BOOLEAN, vector_store : BOOLEAN]
    /\ corpus \in corpora
    /\ notes_collection = <<>>
    /\ journals_collection = <<>>
    /\ pc = "idle"
    /\ all_notes = EmptySnapshot
    /\ idx = 0
    /\ stats = NoStats
    /\ stats_files = {}
    /\ clock = NoReading
    /\ log = <<>>
    /\ effects = {}
    /\ ret = NoCall
    /\ ops = 0
    /\ written = {}
    /\ previous = NoRun
    /\ requests = [r \in Requests |-> NoRequest]
    /\ export_file = NoExport
    /\ searching = NoSearch
    /\ gen = NoStream

Init == InitOver(Corpora)

\* process_all_notes, lines 70-82: the readiness gate and the fresh stats
StartRun ==
    /\ pc = "idle"
    /\ IF ~IsReady(components)
       THEN /\ pc' = "done"
            /\ ret' = [op |-> "process_all_notes", value |-> NotReadyStats]
            /\ UNCHANGED <<stats, clock>>
       ELSE /\ pc' = "export"
            /\ \E now \in LaterReadings(clock) :
                /\ stats' = [start_time |-> now, pages_processed |-> 0,
                             journals_processed |-> 0, enhanced_count |-> 0,
                             errors |-> 0, status |-> "in_progress"]
                /\ clock' = now
            /\ ret' = NoCall
    /\ UNCHANGED <<searching, gen, requests, export_file, previous, components, corpus, notes_collection, journals_collection,
                   all_notes, idx, stats_files, log, effects, ops, written>>

\* where the loops of process_all_notes stand after one more note
AfterNote(position, i, snapshot) ==
    IF position = "pages"
    THEN IF i < Len(snapshot.pages) THEN <<"pages", i + 1>>
         ELSE IF snapshot.journals # <<>> THEN <<"journals", 1>>
         ELSE <<"save", 0>>
    ELSE IF i < Len(snapshot.journals) THEN <<"journals", i + 1>>
         ELSE <<"save", 0>>

\* an except clause that records the message and leaves the status
FailedStatsInProgress(st, message) == st @@ ("error" :> message)

\* process_all_notes, lines 135-139: the except clause of the whole run
FailedStats(st, message) == [st EXCEPT !.status = "failed"] @@ ("error" :> message)

\* process_all_notes, lines 84-91 and 135-139: export, reload, or the
\* run-level failure
ExportNotes ==
    /\ pc = "export"
    /\ effects' = effects \cup {"export"}
    /\ \E export_raises \in BOOLEAN :
        IF export_raises
        THEN /\ stats' = FailedStats(stats, "export failed")
             /\ pc' = "done"
             /\ ret' = [op |-> "process_all_notes", value |-> stats']
             /\ UNCHANGED <<all_notes, idx>>
        ELSE /\ all_notes' = corpus
             /\ LET first == IF corpus.pages # <<>> THEN <<"pages", 1>>
                             ELSE IF corpus.journals # <<>> THEN <<"journals", 1>>
                             ELSE <<"save", 0>>
                IN  pc' = first[1] /\ idx' = first[2]
             /\ ret' = NoCall
             /\ UNCHANGED stats
    /\ UNCHANGED <<searching, gen, requests, export_file, previous, components, corpus, notes_collection, journals_collection,
                   stats_files, clock, log, ops, written>>

\* CountPage without the except clause of the page loop
CountPageNoExcept(st, raised, enhanced) ==
    IF raised
    THEN st
    ELSE [st EXCEPT !.pages_processed = @ + 1,
                    !.enhanced_count = IF enhanced THEN @ + 1 ELSE @]

\* the counters after one iteration of the page loop: the except clause of
\* lines 108-110 when the iteration raised, lines 103 and 107 otherwise
CountPage(st, raised, enhanced) ==
    IF raised
    THEN [st EXCEPT !.errors = @ + 1]
    ELSE [st EXCEPT !.pages_processed = @ + 1,
                    !.enhanced_count = IF enhanced THEN @ + 1 ELSE @]

\* the paths a call of add_note stored, as <<is_journal, path>>
Stored(note_data, result) ==
    IF result.none THEN {} ELSE {<<note_data.is_journal, note_data.path>>}

\* process_all_notes, lines 97-98: the page is sent for enhancement
PageAsks(page) == Truthy(page.content) /\ page.content.len < EnhanceThreshold

\* process_all_notes, line 99 up to the request of process_note: the request
\* for the page is sent and the run waits for the reply
AskEnhancement ==
    /\ pc = "pages"
    /\ PageAsks(all_notes.pages[idx])
    /\ pc' = "enhancing"
    /\ effects' = effects \cup {"llm"}
    /\ ret' = NoCall
    /\ UNCHANGED <<searching, gen, requests, export_file, previous, components, corpus,
                   notes_collection, journals_collection, all_notes, idx, stats,
                   stats_files, clock, log, ops, written>>

\* process_all_notes, lines 94-110: the rest of one iteration of the loop
\* over the pages, from the reply of the inference service (for a page that
\* was sent) to the counters
ProcessPage ==
    /\ \/ pc = "enhancing"
       \/ pc = "pages" /\ ~PageAsks(all_notes.pages[idx])
    /\ \E reply \in (IF pc = "enhancing" THEN NoteReplies ELSE {ReplyTransportFailure}),
          upsert_raises \in BOOLEAN :
        LET page == all_notes.pages[idx]
            content == page.content
            asks == PageAsks(page)
            enhancement == ProcessNote(content, "enhance", reply)
            test == IF asks THEN KeyTest("response", enhancement) ELSE "false"
            enhanced == test = "true"
            page2 == IF enhanced
                     THEN [page EXCEPT !.clean_content = enhancement.response]
                          @@ ("enhanced_content" :> enhancement.response)
                     ELSE page
            added == AddNote(notes_collection, journals_collection, page2, upsert_raises)
            next == AfterNote("pages", idx, all_notes)
        IN  /\ all_notes' = [all_notes EXCEPT !.pages[idx] = page2]
            /\ effects' = effects \cup (IF test # "raises" /\ added.upsert_called
                                        THEN {"index_write"} ELSE {})
            /\ IF test = "raises"
               THEN /\ stats' = CountPage(stats, TRUE, FALSE)
                    /\ log' = Append(log, [kind |-> "page", index |-> idx,
                                           asked |-> asks, reply |-> reply.status,
                                           response |-> reply.response,
                                           service |-> reply,
                                           enhanced |-> FALSE, add_note |-> FALSE,
                                           clean_content |-> page2.clean_content,
                                           upsert_failed |-> FALSE, stored |-> FALSE,
                                           counted |-> "errors"])
                    /\ UNCHANGED <<notes_collection, journals_collection, written>>
               ELSE /\ notes_collection' = added.notes
                    /\ journals_collection' = added.journals
                    /\ written' = written \cup Stored(page2, added)
                    /\ stats' = CountPage(stats, FALSE, enhanced)
                    /\ log' = Append(log, [kind |-> "page", index |-> idx,
                                           asked |-> asks,
                                           reply |-> IF asks THEN reply.status ELSE 0,
                                           response |-> IF asks THEN reply.response
                                                        ELSE Empty,
                                           service |-> IF asks THEN reply
                                                       ELSE ReplyTransportFailure,
                                           enhanced |-> enhanced, add_note |-> TRUE,
                                           clean_content |-> page2.clean_content,
                                           upsert_failed |-> added.upsert_called /\ added.none,
                                           stored |-> ~added.none,
                                           counted |-> "pages_processed"])
            /\ pc' = next[1]
            /\ idx' = next[2]
    /\ ret' = NoCall
    /\ UNCHANGED <<searching, gen, requests, export_file, previous, components, corpus,
                   stats_files, clock, ops>>

\* a journal loop that counts its notes as enhanced
CountJournalEnhanced(st) ==
    [st EXCEPT !.journals_processed = @ + 1, !.enhanced_count = @ + 1]

\* the counters after one iteration of the journal loop, line 117
CountJournal(st) == [st EXCEPT !.journals_processed = @ + 1]

\* process_all_notes, lines 113-120: one iteration of the loop over the journals
ProcessJournal ==
    /\ pc = "journals"
    /\ \E upsert_raises \in BOOLEAN :
        LET journal == all_notes.journals[idx]
            added == AddNote(notes_collection, journals_collection, journal, upsert_raises)
            next == AfterNote("journals", idx, all_notes)
        IN  /\ notes_collection' = added.notes
            /\ journals_collection' = added.journals
            /\ written' = written \cup Stored(journal, added)
            /\ effects' = effects \cup (IF added.upsert_called THEN {"index_write"} ELSE {})
            /\ stats' = CountJournal(stats)
            /\ log' = Append(log, [kind |-> "journal", index |-> idx,
                                   asked |-> FALSE, reply |-> 0,
                                   response |-> Empty,
                                   service |-> ReplyTransportFailure,
                                   enhanced |-> FALSE, add_note |-> TRUE,
                                   clean_content |-> journal.clean_content,
                                   upsert_failed |-> added.upsert_called /\ added.none,
                                   stored |-> ~added.none,
                                   counted |-> "journals_processed"])
            /\ pc' = next[1]
            /\ idx' = next[2]
    /\ ret' = NoCall
    /\ UNCHANGED <<searching, gen, requests, export_file, previous, components, corpus,
                   all_notes, stats_files, clock, ops>>

\* open(stats_path, 'w'), line 129: the file of that name is there and
\* empty, which is not JSON
OpenFile(files, name) ==
    {f \in files : f.name # name}
    \cup {[name |-> name, content |-> [status |-> "not json"], length |-> 0]}

\* json.dump and the end of the with block, line 130: the text, shorter than
\* the buffer of the file, is written at the start of the file when the file
\* is closed.  A file that another writer made longer since the open keeps
\* its tail after the text and is not JSON.
WriteFile(files, name, content, length) ==
    LET longer == {f \in files : f.name = name /\ f.length > length}
    IN  {f \in files : f.name # name}
        \cup (IF longer # {}
              THEN {[f EXCEPT !.content = [status |-> "not json"]] : f \in longer}
              ELSE {[name |-> name, content |-> content, length |-> length]})

\* the characters of json.dump(stats, f, indent=2) for the stats of line 125.
\* A reading is a second and its microsecond: isoformat() leaves out the
\* microseconds when they are 0, and the duration is the repr of a float
\* (readings and durations below ten seconds and ten microseconds).
StatsLength(st) ==
    LET IsoLength(t) == IF t.tick = 0 THEN 19 ELSE 26
        DurationLength == IF st.duration_seconds[2] = 0 THEN 3
                          ELSE IF st.duration_seconds[1] = 0 THEN 5
                          ELSE 8
    IN  StatsFrame + IsoLength(st.start_time) + IsoLength(st.end_time) + DurationLength
        + Len(NumStr(st.pages_processed)) + Len(NumStr(st.journals_processed))
        + Len(NumStr(st.enhanced_count)) + Len(NumStr(st.errors))

\* the stats of a run that passed the loops, lines 122-125
CompletedStats(st, end_time) ==
    [st EXCEPT !.status = "completed"]
       @@ ("end_time" :> end_time)
       @@ ("duration_seconds" :> Duration(st.start_time, end_time))

\* process_all_notes, lines 122-139: end of a run that passed the loops.
\* The stats file is written inside the try of the run: when open() raises
\* the except clause turns the run to failed and no file is written.
SaveStats ==
    /\ pc = "save"
    /\ \E now \in LaterReadings(clock), write_raises \in BOOLEAN :
        LET completed == CompletedStats(stats, now)
        IN  /\ clock' = now
            /\ IF write_raises
               THEN /\ stats' = FailedStats(completed, "stats file not written")
                    /\ UNCHANGED <<stats_files, effects>>
               ELSE /\ stats' = completed
                    /\ stats_files' = WriteFile(OpenFile(stats_files,
                                                         StatsFileName(stats.start_time)),
                                                StatsFileName(stats.start_time),
                                                completed, StatsLength(completed))
                    /\ effects' = effects \cup {"stats_file"}
            /\ ret' = [op |-> "process_all_notes", value |-> stats']
    /\ pc' = "done"
    /\ UNCHANGED <<searching, gen, requests, export_file, previous, components, corpus,
                   notes_collection, journals_collection, all_notes, idx, log, ops,
                   written>>

\* the process route is called again once the first run has returned: what
\* that run returned and left in the index is kept for comparison
RunAgain ==
    /\ pc = "done"
    /\ ret.op = "process_all_notes"
    /\ previous = NoRun
    /\ previous' = [runs |-> 1, value |-> ret.value, handled |-> Len(log),
                    notes |-> notes_collection, journals |-> journals_collection]
    /\ pc' = "idle"
    /\ ret' = NoCall
    /\ UNCHANGED <<searching, gen, requests, export_file, components, corpus, notes_collection,
                   journals_collection, all_notes, idx, stats, stats_files, clock,
                   log, effects, ops, written>>

RECURSIVE TextLength(_)
\* the characters that json.dump writes for a list of notes beyond those of
\* the empty list: the two texts and the frame of every note; the brackets
\* of the list are open after its first note, so each later note takes two
\* characters fewer
TextLength(notes) ==
    IF notes = <<>> THEN 0
    ELSE LET last == notes[Len(notes)]
             frame == IF last.is_journal THEN JournalFrame ELSE NoteFrame
         IN  last.content.len + last.clean_content.len + frame
             - (IF Len(notes) > 1 THEN 2 ELSE 0)
             + TextLength(SubSeq(notes, 1, Len(notes) - 1))

\* the pieces in which json.dump of export_to_json reaches the disk
ExportPieces(snapshot) ==
    1..((ExportFrame + TextLength(snapshot.pages) + TextLength(snapshot.journals))
            \div WriteBuffer + 1)

\* process_all_notes, lines 70-82, in one of two requests served at once
RequestStart(r) ==
    /\ requests[r].pc = "idle"
    /\ IF ~IsReady(components)
       THEN /\ requests' = [requests EXCEPT ![r].pc = "done", ![r].stats = NotReadyStats]
            /\ UNCHANGED clock
       ELSE \E now \in LaterReadings(clock) :
            /\ requests' = [requests EXCEPT
                               ![r].pc = "export",
                               ![r].stats = [start_time |-> now, pages_processed |-> 0,
                                             journals_processed |-> 0,
                                             enhanced_count |-> 0,
                                             errors |-> 0, status |-> "in_progress"]]
            /\ clock' = now
    /\ UNCHANGED <<searching, gen, export_file, previous, components, corpus,
                   notes_collection, journals_collection, pc, all_notes, idx, stats,
                   stats_files, log, effects, ret, ops, written>>

\* export_to_json up to open(output_path, 'w'): the notes are parsed, then
\* the one export file is truncated; a failure of the parsing ends the run
RequestExportOpen(r) ==
    /\ requests[r].pc = "export"
    /\ \E export_raises \in BOOLEAN :
        IF export_raises
        THEN /\ requests' = [requests EXCEPT
                                ![r].pc = "done",
                                ![r].export_raised = TRUE,
                                ![r].stats = FailedStats(@, "export failed")]
             /\ UNCHANGED export_file
        ELSE /\ requests' = [requests EXCEPT ![r].pc = "dump", ![r].flushed = 0]
             /\ export_file' = [exists |-> TRUE, pieces |-> {}]
    /\ UNCHANGED <<searching, gen, previous, components, corpus, notes_collection,
                   journals_collection, pc, all_notes, idx, stats, stats_files, clock,
                   log, effects, ret, ops, written>>

\* json.dump of export_to_json filled the buffer: the next piece of the
\* export is written at its place in the file, whatever the file holds
RequestExportFlush(r) ==
    /\ requests[r].pc = "dump"
    /\ requests[r].flushed + 1 \in ExportPieces(corpus)
    /\ requests[r].flushed + 2 \in ExportPieces(corpus)
    /\ requests' = [requests EXCEPT ![r].flushed = @ + 1]
    /\ export_file' = [export_file EXCEPT !.pieces = @ \cup {requests[r].flushed + 1}]
    /\ UNCHANGED <<searching, gen, previous, components, corpus, notes_collection,
                   journals_collection, pc, all_notes, idx, stats, stats_files, clock,
                   log, effects, ret, ops, written>>

\* export_to_json, the end of the with block: the pieces not yet written
\* are written at their places
RequestExportClose(r) ==
    /\ requests[r].pc = "dump"
    /\ requests' = [requests EXCEPT ![r].pc = "load"]
    /\ export_file' = [export_file EXCEPT
                          !.pieces = @ \cup {k \in ExportPieces(corpus) :
                                                k > requests[r].flushed}]
    /\ UNCHANGED <<searching, gen, previous, components, corpus, notes_collection,
                   journals_collection, pc, all_notes, idx, stats, stats_files, clock,
                   log, effects, ret, ops, written>>

\* process_all_notes, lines 89-91 and 135-139: json.load of the export
\* file; a file that misses a piece is not JSON and ends the run
RequestLoad(r) ==
    /\ requests[r].pc = "load"
    /\ IF export_file.pieces = ExportPieces(corpus)
       THEN LET first == IF corpus.pages # <<>> THEN <<"pages", 1>>
                         ELSE IF corpus.journals # <<>> THEN <<"journals", 1>>
                         ELSE <<"save", 0>>
            IN  requests' = [requests EXCEPT ![r].all_notes = corpus,
                                             ![r].pc = first[1],
                                             ![r].idx = first[2]]
       ELSE requests' = [requests EXCEPT
                           ![r].pc = "done",
                           ![r].stats = FailedStats(@, "export unreadable")]
    /\ UNCHANGED <<searching, gen, export_file, previous, components, corpus,
                   notes_collection, journals_collection, pc, all_notes, idx, stats,
                   stats_files, clock, log, effects, ret, ops, written>>

\* process_all_notes, line 99 in a request: the request for the enhancement
\* of the page is sent and the run waits for the reply
RequestAsk(r) ==
    /\ requests[r].pc = "pages"
    /\ PageAsks(requests[r].all_notes.pages[requests[r].idx])
    /\ requests' = [requests EXCEPT ![r].pc = "enhancing"]
    /\ UNCHANGED <<searching, gen, export_file, previous, components, corpus,
                   notes_collection, journals_collection, pc, all_notes, idx, stats,
                   stats_files, clock, log, effects, ret, ops, written>>

\* process_all_notes, lines 94-110, in a request: the rest of one iteration
\* of the loop over the pages, writing to the shared index
RequestPage(r) ==
    /\ \/ requests[r].pc = "enhancing"
       \/ /\ requests[r].pc = "pages"
          /\ ~PageAsks(requests[r].all_notes.pages[requests[r].idx])
    /\ \E reply \in (IF requests[r].pc = "enhancing" THEN NoteReplies
                     ELSE {ReplyTransportFailure}),
          upsert_raises \in BOOLEAN :
        LET mine == requests[r]
            page == mine.all_notes.pages[mine.idx]
            content == page.content
            asks == PageAsks(page)
            enhancement == ProcessNote(content, "enhance", reply)
            test == IF asks THEN KeyTest("response", enhancement) ELSE "false"
            enhanced == test = "true"
            page2 == IF enhanced
                     THEN [page EXCEPT !.clean_content = enhancement.response]
                          @@ ("enhanced_content" :> enhancement.response)
                     ELSE page
            added == AddNote(notes_collection, journals_collection, page2, upsert_raises)
            next == AfterNote("pages", mine.idx, mine.all_notes)
        IN  /\ requests' = [requests EXCEPT
                               ![r].all_notes.pages[mine.idx] = page2,
                               ![r].stats = CountPage(@, test = "raises", enhanced),
                               ![r].pc = next[1],
                               ![r].idx = next[2]]
            /\ IF test = "raises"
               THEN UNCHANGED <<notes_collection, journals_collection>>
               ELSE /\ notes_collection' = added.notes
                    /\ journals_collection' = added.journals
    /\ UNCHANGED <<searching, gen, export_file, previous, components, corpus, pc,
                   all_notes, idx, stats, stats_files, clock, log, effects, ret, ops,
                   written>>

\* process_all_notes, lines 113-120, in a request: one iteration of the
\* loop over the journals
RequestJournal(r) ==
    /\ requests[r].pc = "journals"
    /\ \E upsert_raises \in BOOLEAN :
        LET mine == requests[r]
            journal == mine.all_notes.journals[mine.idx]
            added == AddNote(notes_collection, journals_collection, journal, upsert_raises)
            next == AfterNote("journals", mine.idx, mine.all_notes)
        IN  /\ requests' = [requests EXCEPT ![r].stats = CountJournal(@),
                                            ![r].pc = next[1],
                                            ![r].idx = next[2]]
            /\ notes_collection' = added.notes
            /\ journals_collection' = added.journals
    /\ UNCHANGED <<searching, gen, export_file, previous, components, corpus, pc,
                   all_notes, idx, stats, stats_files, clock, log, effects, ret, ops,
                   written>>

\* process_all_notes, lines 122-125, in a request: the clock is read and
\* the stats are completed
RequestFinish(r) ==
    /\ requests[r].pc = "save"
    /\ \E now \in LaterReadings(clock) :
        /\ clock' = now
        /\ requests' = [requests EXCEPT ![r].stats = CompletedStats(@, now),
                                        ![r].pc = "stats"]
    /\ UNCHANGED <<searching, gen, export_file, previous, components, corpus,
                   notes_collection, journals_collection, pc, all_notes, idx, stats,
                   stats_files, log, effects, ret, ops, written>>

\* process_all_notes, lines 128-129 and 135-139, in a request: the stats
\* file, named after the second in which the request started, is opened and
\* so emptied; when open() raises the request fails and no file is touched
RequestStatsOpen(r) ==
    /\ requests[r].pc = "stats"
    /\ \E write_raises \in BOOLEAN :
        IF write_raises
        THEN /\ requests' = [requests EXCEPT
                                ![r].stats = FailedStats(@, "stats file not written"),
                                ![r].pc = "done"]
             /\ UNCHANGED stats_files
        ELSE /\ requests' = [requests EXCEPT ![r].pc = "write"]
             /\ stats_files' = OpenFile(stats_files,
                                        StatsFileName(requests[r].stats.start_time))
    /\ UNCHANGED <<searching, gen, export_file, previous, components, corpus,
                   notes_collection, journals_collection, pc, all_notes, idx, stats,
                   clock, log, effects, ret, ops, written>>

\* process_all_notes, lines 130-133, in a request: json.dump, the end of the
\* with block, and the return of the stats
RequestSave(r) ==
    /\ requests[r].pc = "write"
    /\ requests' = [requests EXCEPT ![r].pc = "done"]
    /\ stats_files' = WriteFile(stats_files,
                                StatsFileName(requests[r].stats.start_time),
                                requests[r].stats, StatsLength(requests[r].stats))
    /\ UNCHANGED <<searching, gen, export_file, previous, components, corpus,
                   notes_collection, journals_collection, pc, all_notes, idx, stats,
                   clock, log, effects, ret, ops, written>>

SummaryId == <<"s", "u", "m", "m", "a", "r", "y">>

\* the synthetic first result of search_brain
QuerySummary(query, text) ==
    [id |-> SummaryId,
     content |-> text,
     metadata |-> [title |-> <<"Summary for query: ", query.id>>, is_summary |-> TRUE]]

\* the synthetic first result of search_by_date
DateSummary(date_str, text) ==
    [id |-> SummaryId,
     content |-> text,
     metadata |-> [title |-> <<"Summary for date: ", date_str>>, is_summary |-> TRUE,
                   journal_date |-> date_str]]

\* lines 162-191 and 216-246: the summary step shared by both searches
Summarized(results, reply, summary) ==
    IF results = <<>> THEN results
    ELSE LET llm_response == Generate("prompt", FALSE, reply)
         IN  IF KeyInGenerator("response", llm_response)
             THEN <<summary>> \o results
             ELSE results

\* a search that asks the inference service whatever the index returned
LlmRequestsAlways(results) == 1

\* the calls of llm.generate in one search: the one of line 177 (231 for
\* the date search), inside `if results:`
LlmRequests(results) == IF results # <<>> THEN 1 ELSE 0

\* what search_brain and search_by_date hand back: pending is what the call
\* read from the index, reply the answer to its request when it made one
SearchReturn(pending, reply) ==
    LET asked == LlmRequests(pending.raw) > 0
        summary == IF pending.op = "search_brain"
                   THEN QuerySummary(pending.query, reply.response)
                   ELSE DateSummary(pending.date_str, reply.response)
    IN  [op |-> pending.op, ready |-> TRUE,
         collection |-> pending.collection, limit |-> pending.limit,
         store_raised |-> pending.store_raised,
         index_read |-> pending.index_read,
         held |-> pending.held,
         raw |-> pending.raw,
         asked |-> asked,
         llm_requests |-> LlmRequests(pending.raw),
         llm_response |-> Generate("prompt", FALSE, reply),
         key_found |-> KeyInGenerator("response", Generate("prompt", FALSE, reply)),
         reply |-> IF asked THEN reply.status ELSE 0,
         date_str |-> pending.date_str,
         value |-> Summarized(pending.raw, reply, summary)]

\* what is left open about the answer of the store once it is known whether
\* the call raised: a call that raised has no answer
AnswerChoices(raises) == IF raises THEN {FALSE} ELSE BOOLEAN

\* the index answered a search: with nothing found the call returns at
\* once, otherwise the request to the inference service is sent (line 177,
\* 231 for the date search) and the call waits for the reply
AfterLookup(pending) ==
    /\ IF LlmRequests(pending.raw) > 0
       THEN /\ searching' = pending
            /\ ret' = NoCall
       ELSE /\ searching' = NoSearch
            /\ ret' = SearchReturn(pending, ReplyTransportFailure)

\* VectorStore.search, lines 208-235, one turn of the loop over the selected
\* collections: the next of them is asked as it stands at this moment and
\* its answer is added to the results; after the last of them the results
\* are sorted and cut.  A query that raises empties the result.
QueryNext(pending, query_raises) ==
    LET name == Head(pending.left)
        collection == IF name = "notes" THEN notes_collection ELSE journals_collection
        answer == QueryCollection(collection, pending.query, pending.limit,
                                  pending.with_distances, pending.unlimited)
        held == IF name = "notes"
                THEN <<Len(notes_collection), pending.held[2]>>
                ELSE <<pending.held[1], Len(journals_collection)>>
        read == [pending EXCEPT !.index_read = TRUE, !.held = held, !.left = Tail(@)]
    IN  IF query_raises
        THEN AfterLookup([read EXCEPT !.store_raised = TRUE, !.raw = <<>>,
                                      !.left = <<>>])
        ELSE IF read.left # <<>>
        THEN /\ searching' = [read EXCEPT !.raw = @ \o answer]
             /\ ret' = NoCall
        ELSE AfterLookup([read EXCEPT
                             !.raw = Slice(SortResults(@ \o answer), pending.limit)])

\* BrainProcessor.search_brain, lines 141-159, and VectorStore.search, lines
\* 199-213: up to the answer of the first selected collection.  The library
\* answers every query of one search in the same way (with or without
\* distances, and for a limit below one).
SearchBrain ==
    /\ searching = NoSearch
    /\ IF ~IsReady(components)
       THEN /\ ret' = [op |-> "search_brain", ready |-> FALSE, value |-> NotReadyResult]
            /\ UNCHANGED searching
       ELSE \E query \in Queries, collection \in Scopes, limit \in Limits,
               query_raises \in BOOLEAN :
            \E with_distances \in AnswerChoices(query_raises),
               unlimited \in AnswerChoices(query_raises) \cap LibraryChoices(limit) :
            LET pending == [op |-> "search_brain", query |-> query, date_str |-> NoDate,
                            collection |-> collection, limit |-> limit,
                            store_raised |-> FALSE, index_read |-> FALSE,
                            held |-> <<0, 0>>, raw |-> <<>>,
                            left |-> SelectCollections("notes", "journals", collection),
                            with_distances |-> with_distances,
                            unlimited |-> unlimited]
            IN  IF pending.left = <<>>
                THEN AfterLookup(pending)
                ELSE QueryNext(pending, query_raises)
    /\ UNCHANGED <<effects, gen, requests, export_file, previous, components, corpus,
                   notes_collection, journals_collection, pc, all_notes, idx, stats,
                   stats_files, clock, log, ops, written>>

\* VectorStore.search, lines 208-235, called by search_brain: the query of
\* the second collection of a search of both
SearchQuery ==
    /\ searching # NoSearch
    /\ searching.left # <<>>
    /\ \E query_raises \in BOOLEAN : QueryNext(searching, query_raises)
    /\ UNCHANGED <<effects, gen, requests, export_file, previous, components, corpus,
                   notes_collection, journals_collection, pc, all_notes, idx, stats,
                   stats_files, clock, log, ops, written>>

\* BrainProcessor.search_by_date, lines 196-231: up to the request to the
\* inference service
SearchByDate ==
    /\ searching = NoSearch
    /\ IF ~IsReady(components)
       THEN /\ ret' = [op |-> "search_by_date", ready |-> FALSE, value |-> NotReadyResult]
            /\ UNCHANGED searching
       ELSE \E date_str \in AskedDates, limit \in Limits, get_raises \in BOOLEAN :
            \E unlimited \in AnswerChoices(get_raises) \cap LibraryChoices(limit) :
            AfterLookup([op |-> "search_by_date", query |-> "", date_str |-> date_str,
                         collection |-> "journals", limit |-> limit,
                         store_raised |-> get_raises,
                         index_read |-> TRUE,
                         held |-> <<Len(notes_collection), Len(journals_collection)>>,
                         raw |-> StoreSearchByDate(journals_collection, date_str, limit,
                                                   get_raises, unlimited),
                         left |-> <<>>, with_distances |-> FALSE,
                         unlimited |-> unlimited])
    /\ UNCHANGED <<effects, gen, requests, export_file, previous, components, corpus,
                   notes_collection, journals_collection, pc, all_notes, idx, stats,
                   stats_files, clock, log, ops, written>>

\* search_brain, lines 179-191, and search_by_date, lines 233-246: the reply
\* of the inference service arrived and the call returns
SearchAnswer ==
    /\ searching # NoSearch
    /\ searching.left = <<>>
    /\ \E reply \in GenerateReplies : ret' = SearchReturn(searching, reply)
    /\ searching' = NoSearch
    /\ UNCHANGED <<gen, requests, export_file, previous, components, corpus,
                   notes_collection, journals_collection, pc, all_notes, idx, stats,
                   stats_files, clock, log, effects, ops, written>>

\* a text of blanks only
Blank == Text("   ", 3, 0)

\* str.strip()
Strip(t) == IF t = Blank THEN Empty ELSE t

ValidTasks == {"summarize", "tag", "enhance"}

\* enhance_note, lines 272-276: the task handed to process_note
EnhanceNoteTask(task) == IF task \in ValidTasks THEN task ELSE "enhance"

\* does enhance_note get as far as the request to the inference service
EnhanceNoteAsks(note_content, llm) ==
    llm /\ Truthy(note_content) /\ Strip(note_content) # Empty

\* BrainProcessor.enhance_note: the value handed to the caller
EnhanceNote(note_content, task, reply, llm) ==
    IF ~EnhanceNoteAsks(note_content, llm) THEN ErrorDict
    ELSE LET result == ProcessNote(note_content, EnhanceNoteTask(task), reply)
         IN  IF result.type # "object" THEN ErrorDict
             ELSE IF result.keys = {} THEN ErrorDict
             ELSE IF "error" \in result.keys THEN result
             ELSE IF "response" \notin result.keys THEN ErrorDict
             ELSE result

(***************************************************************************)
(* Direct use of the OllamaClient and of enhance_note.                     *)
(***************************************************************************)
TaskTypes == ValidTasks \cup {"rewrite", ""}

ClientTexts == {Empty, Blank, ShortText, Long}

ClientReplies == NoteReplies \cup {ReplyMalformedBody}

TagsReplies ==
    {TagsOk(<<"mistral:latest", "llama3">>), TagsOk(<<>>), TagsNoModelsKey,
     TagsMalformedBody, TagsApiError, TagsTransportFailure}

\* a call of OllamaClient.process_note
ClientProcessNote ==
    /\ components.llm
    /\ \E note_content \in ClientTexts, task_type \in TaskTypes, reply \in ClientReplies :
        ret' = [op |-> "process_note", note_content |-> note_content,
                task_type |-> task_type, reply |-> reply,
                request |-> ProcessNoteRequest(note_content, task_type),
                value |-> ProcessNote(note_content, task_type, reply)]
    /\ effects' = effects \cup {"llm"}
    /\ UNCHANGED <<searching, gen, requests, export_file, previous, components, corpus, notes_collection, journals_collection, pc,
                   all_notes, idx, stats, stats_files, clock, log, ops, written>>

\* a call of OllamaClient.list_models
ClientListModels ==
    /\ components.llm
    /\ \E reply \in TagsReplies :
        ret' = [op |-> "list_models", reply |-> reply, value |-> ListModels(reply)]
    /\ effects' = effects \cup {"llm"}
    /\ UNCHANGED <<searching, gen, requests, export_file, previous, components, corpus, notes_collection, journals_collection, pc,
                   all_notes, idx, stats, stats_files, clock, log, ops, written>>

\* the streamed answers: a status and up to MaxChunks lines
StreamReplies ==
    {[status |-> 500, lines |-> <<>>], [status |-> 0, lines |-> <<>>]}
    \cup UNION { {[status |-> 200, lines |-> lines] :
                      lines \in [1..n -> {BlankLine, Chunk(<<"a">>), Chunk(<<"b", "c">>),
                                          Chunk(<<>>), ChunkNoFragment, MalformedLine}]}
                 : n \in 0..MaxChunks }

\* the generator of a streaming generate at one of its suspension points
Generator(state, reply, rest, yielded, full_response, value) ==
    [state |-> state, reply |-> reply, rest |-> rest, yielded |-> yielded,
     full_response |-> full_response, value |-> value]

\* a call of OllamaClient.generate with stream=True: the body has a yield,
\* so the call builds the generator and sends nothing
ClientGenerateStream ==
    /\ components.llm
    /\ gen.state \in {"none", "returned", "closed"}
    /\ gen' = Generator("created", ReplyTransportFailure, <<>>, <<>>, <<>>, NoCall)
    /\ ret' = NoCall
    /\ UNCHANGED <<searching, requests, export_file, previous, components, corpus,
                   notes_collection, journals_collection, pc, all_notes, idx, stats,
                   stats_files, clock, log, effects, ops, written>>

\* the generator ran to its next yield or to its end
Resumed(reply, lines, yielded, full_response) ==
    LET step == Resume(lines, full_response)
    IN  IF step.kind = "yield"
        THEN /\ gen' = Generator("suspended", reply, step.rest,
                                    Append(yielded, step.chunk), step.full_response,
                                    NoCall)
             /\ ret' = NoCall
        ELSE /\ gen' = Generator("returned", reply, <<>>, yielded, full_response,
                                    step.value)
             /\ ret' = [op |-> "generate_stream", reply |-> reply, yielded |-> yielded,
                        value |-> step.value]

\* next() on the generator: the first one sends the request (lines 76-81),
\* every one runs the loop of lines 86-92 to the next yield or to the return
StreamNext ==
    /\ gen.state \in {"created", "suspended"}
    /\ IF gen.state = "created"
       THEN /\ effects' = effects \cup {"llm"}
            /\ \E reply \in StreamReplies :
                IF reply.status # 200
                THEN /\ gen' = Generator("returned", reply, <<>>, <<>>, <<>>, ErrorDict)
                     /\ ret' = [op |-> "generate_stream", reply |-> reply,
                                yielded |-> <<>>, value |-> ErrorDict]
                ELSE Resumed(reply, reply.lines, <<>>, <<>>)
       ELSE /\ UNCHANGED effects
            /\ Resumed(gen.reply, gen.rest, gen.yielded, gen.full_response)
    /\ UNCHANGED <<searching, requests, export_file, previous, components, corpus,
                   notes_collection, journals_collection, pc, all_notes, idx, stats,
                   stats_files, clock, log, ops, written>>

\* the consumer stops iterating: the generator is closed where it stands
\* and its return value is never produced
StreamClose ==
    /\ gen.state \in {"created", "suspended"}
    /\ gen' = [gen EXCEPT !.state = "closed"]
    /\ ret' = NoCall
    /\ UNCHANGED <<searching, requests, export_file, previous, components, corpus,
                   notes_collection, journals_collection, pc, all_notes, idx, stats,
                   stats_files, clock, log, effects, ops, written>>

\* a call of BrainProcessor.enhance_note
CallEnhanceNote ==
    /\ \E note_content \in ClientTexts, task \in TaskTypes, reply \in ClientReplies :
        LET asks == EnhanceNoteAsks(note_content, components.llm)
        IN  /\ ret' = [op |-> "enhance_note", note_content |-> note_content,
                       task |-> task, asked |-> asks,
                       reply |-> IF asks THEN reply ELSE ReplyTransportFailure,
                       request |-> IF asks
                                   THEN <<ProcessNoteRequest(note_content,
                                                             EnhanceNoteTask(task))>>
                                   ELSE <<>>,
                       value |-> EnhanceNote(note_content, task, reply, components.llm)]
            /\ effects' = effects \cup (IF asks THEN {"llm"} ELSE {})
    /\ UNCHANGED <<searching, gen, requests, export_file, previous, components, corpus, notes_collection, journals_collection, pc,
                   all_notes, idx, stats, stats_files, clock, log, ops, written>>

(***************************************************************************)
(* Direct use of the VectorStore.                                          *)
(***************************************************************************)
StorePaths == {<<>>, <<"p", "/", "a">>, <<"p", "_", "a">>}

StoreTexts == {Empty, Plain, Long}

\* the records handed to add_note: pages carry no date, journals carry one
StoreNotes ==
    { [title |-> "T", path |-> p, content |-> t, clean_content |-> t,
       is_journal |-> FALSE, journal_date |-> NoDate,
       tags |-> <<>>, last_modified |-> "mtime"] : p \in StorePaths, t \in StoreTexts }
    \cup
    { [title |-> "T", path |-> p, content |-> t, clean_content |-> t,
       is_journal |-> TRUE, journal_date |-> d,
       tags |-> <<"t", "u">>, last_modified |-> "mtime"] :
         p \in StorePaths, t \in StoreTexts, d \in Dates }

\* a call of VectorStore.add_note
StoreAddNote ==
    /\ ops < MaxOps
    /\ \E note_data \in StoreNotes, upsert_raises \in BOOLEAN :
        LET added == AddNote(notes_collection, journals_collection, note_data, upsert_raises)
        IN  /\ notes_collection' = added.notes
            /\ journals_collection' = added.journals
            /\ written' = written \cup Stored(note_data, added)
            /\ ret' = [op |-> "add_note", note_data |-> note_data,
                       none |-> added.none, id |-> added.id,
                       size_before |-> IF note_data.is_journal
                                       THEN Len(journals_collection)
                                       ELSE Len(notes_collection),
                       again |-> <<note_data.is_journal, note_data.path>> \in written]
    /\ ops' = ops + 1
    /\ UNCHANGED <<searching, gen, requests, export_file, previous, components, corpus, pc, all_notes, idx, stats, stats_files,
                   clock, log, effects>>

RECURSIVE AddEach(_, _, _)
\* add_note applied to each record of a batch in order, every write accepted
AddEach(notes, journals, notes_data) ==
    IF notes_data = <<>> THEN [notes |-> notes, journals |-> journals]
    ELSE LET added == AddNote(notes, journals, Head(notes_data), FALSE)
         IN  AddEach(added.notes, added.journals, Tail(notes_data))

\* a call of VectorStore.add_notes_batch with a batch that fits in the
\* calls left; every record of the batch counts as one of the MaxOps records
\* handed to the store
StoreAddBatch ==
    /\ ops < MaxOps
    /\ \E notes_data \in UNION { [1..n -> StoreNotes] : n \in 0..(MaxOps - ops) },
          notes_raises \in BOOLEAN, journals_raises \in BOOLEAN :
        LET added == AddNotesBatch(notes_collection, journals_collection, notes_data,
                                   notes_raises, journals_raises)
        IN  /\ notes_collection' = added.notes
            /\ journals_collection' = added.journals
            /\ ret' = [op |-> "add_notes_batch", notes_data |-> notes_data,
                       raised |-> added.raised,
                       one_by_one |-> AddEach(notes_collection, journals_collection,
                                              notes_data)]
            /\ ops' = ops + Len(notes_data)
    /\ UNCHANGED <<searching, gen, requests, export_file, previous, components, corpus, pc, all_notes, idx, stats, stats_files,
                   clock, log, effects, written>>

\* a call of VectorStore.search
StoreSearch ==
    /\ \E query \in Queries, collection_name \in Scopes, limit \in Limits,
          query_raises \in BOOLEAN :
        \E with_distances \in AnswerChoices(query_raises),
           unlimited \in AnswerChoices(query_raises) \cap LibraryChoices(limit) :
        ret' = [op |-> "search", collection_name |-> collection_name, limit |-> limit,
                query |-> query, query_raised |-> query_raises,
                value |-> Search(notes_collection, journals_collection, query,
                                 collection_name, limit, with_distances, query_raises,
                                 unlimited)]
    /\ UNCHANGED <<searching, gen, requests, export_file, previous, components, corpus, notes_collection, journals_collection, pc,
                   all_notes, idx, stats, stats_files, clock, log, effects, ops, written>>

\* a call of VectorStore.search_by_date
StoreSearchDate ==
    /\ \E date_str \in AskedDates, limit \in Limits, get_raises \in BOOLEAN :
        \E unlimited \in AnswerChoices(get_raises) \cap LibraryChoices(limit) :
        ret' = [op |-> "store_search_by_date", date_str |-> date_str, limit |-> limit,
                value |-> StoreSearchByDate(journals_collection, date_str, limit,
                                            get_raises, unlimited)]
    /\ UNCHANGED <<searching, gen, requests, export_file, previous, components, corpus, notes_collection, journals_collection, pc,
                   all_notes, idx, stats, stats_files, clock, log, effects, ops, written>>

(***************************************************************************)
(* Specifications.                                                         *)
(*   Spec      one ingestion run of process_all_notes over any corpus      *)
(*   SpecApi   the three operations of BrainProcessor, an ingestion run    *)
(*             and the searches served at once, over the corpora of at     *)
(*             most one short page and one journal                         *)
(*   SpecIndex  add_note and search of the VectorStore                     *)
(*   SpecDates  add_note and search_by_date of the VectorStore             *)
(*   SpecBatch  add_note and add_notes_batch of the VectorStore            *)
(*   SpecInterleaved  two runs of process_all_notes served at once         *)
(*   SpecRerun  two ingestion runs in sequence over the same corpus, of    *)
(*             at most one journal                                         *)
(*   SpecClient  the operations of the OllamaClient and enhance_note       *)
(*   SpecStream  a streaming generate of the OllamaClient, step by step    *)
(*   SpecScenario  one ingestion run over the one-page corpus of the       *)
(*             ingestion scenario                                          *)
(***************************************************************************)
Next ==
    \/ StartRun
    \/ ExportNotes
    \/ AskEnhancement
    \/ ProcessPage
    \/ ProcessJournal
    \/ SaveStats

Spec == Init /\ [][Next]_vars

\* the corpora served while searches run: at most one page, short enough for
\* an enhancement, and at most one journal
ApiCorpora ==
    [pages : {<<>>, <<PageRecord(1, [content |-> Plain, clean_content |-> Plain])>>},
     journals : {<<>>} \cup {<<JournalRecord(1, body)>> :
                                body \in {b \in JournalBodies : b.content # Markup}}]

InitApi == InitOver(ApiCorpora)

NextApi ==
    \/ StartRun
    \/ ExportNotes
    \/ AskEnhancement
    \/ ProcessPage
    \/ ProcessJournal
    \/ SaveStats
    \/ SearchBrain
    \/ SearchQuery
    \/ SearchByDate
    \/ SearchAnswer

SpecApi == InitApi /\ [][NextApi]_vars

InitIndex == Init /\ corpus = EmptySnapshot /\ IsReady(components)

NextIndex ==
    \/ StoreAddNote
    \/ StoreSearch

SpecIndex == InitIndex /\ [][NextIndex]_vars

NextDates ==
    \/ StoreAddNote
    \/ StoreSearchDate

SpecDates == InitIndex /\ [][NextDates]_vars

NextBatch ==
    \/ StoreAddNote
    \/ StoreAddBatch

SpecBatch == InitIndex /\ [][NextBatch]_vars

NextRerun ==
    \/ StartRun
    \/ ExportNotes
    \/ AskEnhancement
    \/ ProcessPage
    \/ ProcessJournal
    \/ SaveStats
    \/ RunAgain

InitRerun == Init /\ Len(corpus.pages) <= 1 /\ Len(corpus.journals) <= 1

SpecRerun == InitRerun /\ [][NextRerun]_vars

\* two requests to the process route served at once
NextInterleaved ==
    \E r \in Requests :
        \/ RequestStart(r)
        \/ RequestExportOpen(r)
        \/ RequestExportFlush(r)
        \/ RequestExportClose(r)
        \/ RequestLoad(r)
        \/ RequestAsk(r)
        \/ RequestPage(r)
        \/ RequestJournal(r)
        \/ RequestFinish(r)
        \/ RequestStatsOpen(r)
        \/ RequestSave(r)

InitInterleaved == Init /\ Len(corpus.pages) <= 1 /\ Len(corpus.journals) <= 1

SpecInterleaved == InitInterleaved /\ [][NextInterleaved]_vars

InitClient == Init /\ corpus = EmptySnapshot

NextClient ==
    \/ ClientProcessNote
    \/ ClientListModels
    \/ CallEnhanceNote

SpecClient == InitClient /\ [][NextClient]_vars

\* a streaming generate consumed chunk by chunk, other calls of the client
\* running in between
NextStream ==
    \/ ClientGenerateStream
    \/ StreamNext
    \/ StreamClose
    \/ ClientListModels

SpecStream == InitClient /\ [][NextStream]_vars

InitScenario == InitOver(ScenarioCorpora)

SpecScenario == InitScenario /\ [][Next]_vars

(***************************************************************************)
(* Properties.                                                             *)
(***************************************************************************)
\* the notes of one kind that the run counted under one counter
Handled(kind, counter) ==
    Cardinality({i \in DOMAIN log : log[i].kind = kind /\ log[i].counted = counter})

RunReturned == pc = "done" /\ ret.op = "process_all_notes"

\* C1: stats conservation.  While a run is in progress every note handled so
\* far has incremented exactly one of its processed counter or errors, and a
\* run over P pages and J journals that returns status completed returns
\* pagesProcessed + journalsProcessed + errors = P + J, with
\* pagesProcessed + (errors of pages) <= P and
\* journalsProcessed + (errors of journals) <= J.
C1_StatsConservation ==
    /\ pc \in {"pages", "enhancing", "journals", "save"} =>
          /\ stats.pages_processed = Handled("page", "pages_processed")
          /\ stats.journals_processed = Handled("journal", "journals_processed")
          /\ stats.errors = Handled("page", "errors") + Handled("journal", "errors")
          /\ stats.pages_processed + stats.journals_processed + stats.errors = Len(log)
    /\ (RunReturned /\ ret.value.status = "completed") =>
          LET st == ret.value
              P == Len(corpus.pages)
              J == Len(corpus.journals)
          IN  /\ st.pages_processed + st.journals_processed + st.errors = P + J
              /\ st.pages_processed + Handled("page", "errors") <= P
              /\ st.journals_processed + Handled("journal", "errors") <= J
              /\ st.errors = Handled("page", "errors") + Handled("journal", "errors")
              /\ \A k \in 1..P :
                    Cardinality({i \in DOMAIN log :
                                    log[i].kind = "page" /\ log[i].index = k}) = 1
              /\ \A k \in 1..J :
                    Cardinality({i \in DOMAIN log :
                                    log[i].kind = "journal" /\ log[i].index = k}) = 1

\* a completed run in which a page was counted as processed, another page
\* as an error and a journal as processed
C1_Witness ==
    /\ RunReturned
    /\ ret.value.status = "completed"
    /\ ret.value.errors >= 1
    /\ ret.value.pages_processed >= 1
    /\ ret.value.journals_processed >= 1

NotReady == ~components.parser \/ ~components.llm \/ ~components.vector_store

\* C2: readiness gate.  When one of parser, LLM client and vector index
\* failed to initialize, process_all_notes, search_brain and search_by_date
\* return their error outcome at once: no export, no LLM request, no read or
\* write of the vector index and no stats file ever happens.
C2_ReadinessGate ==
    NotReady =>
        /\ effects = {}
        /\ searching = NoSearch
        /\ stats_files = {}
        /\ notes_collection = <<>>
        /\ journals_collection = <<>>
        /\ log = <<>>
        /\ pc \in {"idle", "done"}
        /\ ret.op = "process_all_notes" =>
              ret.value = [error |-> "BrainProcessor is not ready", status |-> "failed"]
        /\ ret.op \in {"search_brain", "search_by_date"} =>
              ret.value = <<[error |-> "BrainProcessor is not ready"]>>

\* a processor that is not ready has answered process_all_notes and then a search
C2_Witness ==
    /\ NotReady
    /\ pc = "done"
    /\ ret.op = "search_brain"

SearchReturned == ret.op \in {"search_brain", "search_by_date"} /\ ret.ready

\* C3: summary prepend invariant.  For search_brain and search_by_date with a
\* non-empty result of the vector index: when the generation succeeded the
\* returned sequence is the raw result with the summary prepended (id
\* "summary", no distance, journal_date = date_str for search_by_date); when
\* it failed the returned sequence is the raw result.
C3_SummaryPrepend ==
    (SearchReturned /\ ret.raw # <<>>) =>
        IF ret.reply = 200
        THEN /\ Len(ret.value) = Len(ret.raw) + 1
             /\ Tail(ret.value) = ret.raw
             /\ ret.value[1].id = SummaryId
             /\ "distance" \notin DOMAIN ret.value[1]
             /\ ret.op = "search_by_date" =>
                   ret.value[1].metadata.journal_date = ret.date_str
        ELSE ret.value = ret.raw

\* the notes of one kind whose upsert the store refused
FailedUpserts(kind) ==
    Cardinality({i \in DOMAIN log : log[i].kind = kind /\ log[i].upsert_failed})

NotesOfKind(kind) == Cardinality({i \in DOMAIN log : log[i].kind = kind})

\* C4: per-item indexing failure is counted.  A note whose upsert failed
\* increments errors by one and does not increment pagesProcessed
\* (journalsProcessed).
C4_IndexFailureCounted ==
    pc \in {"pages", "enhancing", "journals", "save"} =>
        /\ stats.errors >= FailedUpserts("page") + FailedUpserts("journal")
        /\ stats.pages_processed + FailedUpserts("page") <= NotesOfKind("page")
        /\ stats.journals_processed + FailedUpserts("journal") <= NotesOfKind("journal")

\* C5: snapshot persistence.  Every run that passed the readiness gate and
\* returned, completed or failed, has written exactly one stats file, named
\* with its start time and carrying the returned status and the end time.
C5_SnapshotPersisted ==
    (RunReturned /\ ~NotReady) =>
        /\ Cardinality(stats_files) = 1
        /\ \A f \in stats_files :
              /\ f.name = StatsFileName(ret.value.start_time)
              /\ f.content.status = ret.value.status
              /\ "end_time" \in DOMAIN f.content

\* C6: enhancement threshold.  A page whose clean_content has length >= 4000
\* is handed to the index with that clean_content, causes no enhancement
\* request and no increment of enhancedCount; a page is sent for enhancement
\* only if its clean_content is non-empty and shorter than 4000.
C6_EnhancementThreshold ==
    \A i \in DOMAIN log :
        log[i].kind = "page" =>
            LET original == corpus.pages[log[i].index].clean_content
            IN  /\ original.len >= EnhanceThreshold =>
                      /\ ~log[i].asked
                      /\ ~log[i].enhanced
                      /\ log[i].clean_content = original
                /\ log[i].asked =>
                      (original.len > 0 /\ original.len < EnhanceThreshold)

\* the pages of the run whose enhancement request came back as an error
FailedEnhancements ==
    {i \in DOMAIN log : log[i].kind = "page" /\ log[i].asked /\ log[i].reply # 200}

\* what C7 says of every page whose enhancement request returned an error
FailedEnhancementKept ==
    /\ \A i \in FailedEnhancements :
          LET page == corpus.pages[log[i].index]
          IN  /\ log[i].add_note
              /\ log[i].clean_content = page.clean_content
              /\ ~log[i].enhanced
              /\ log[i].counted = "pages_processed"
              /\ (Truthy(page.clean_content) /\ ~log[i].upsert_failed) =>
                    \E j \in DOMAIN notes_collection :
                        /\ notes_collection[j].id = NoteId(page.path)
                        /\ notes_collection[j].content = page.clean_content
    /\ pc \in {"pages", "enhancing", "journals", "save", "done"} /\ log # <<>> =>
          stats.enhanced_count = Cardinality({i \in DOMAIN log : log[i].enhanced})

\* the write of the stats file raised at the end of the run: a failure of
\* the run itself, apart from any enhancement (the subject of C5)
StatsWriteFailed ==
    /\ "error" \in DOMAIN stats
    /\ stats.error = "stats file not written"

AddReturned == ret.op = "add_note" /\ ret.again /\ ~ret.none

TargetCollection ==
    IF ret.note_data.is_journal THEN journals_collection ELSE notes_collection

\* what the second of two stored writes of one path leaves in its collection
OneEntryOfLatestWrite ==
    LET same == {i \in DOMAIN TargetCollection :
                    TargetCollection[i].metadata.path = ret.note_data.path}
    IN  /\ Cardinality(same) = 1
        /\ \A i \in same :
              /\ TargetCollection[i].content = ret.note_data.clean_content
              /\ TargetCollection[i].metadata.title = ret.note_data.title
              /\ TargetCollection[i].metadata.journal_date = ret.note_data.journal_date
              /\ TargetCollection[i].metadata.is_journal = ret.note_data.is_journal
        /\ Len(TargetCollection) = ret.size_before

\* C8 as stated: idempotent upsert for every path.  After add_note stored a
\* record whose path had been stored in the same collection before, the
\* collection holds exactly one entry for the path, with the content and
\* metadata of the latest write, and has not grown.
C8_IdempotentUpsert == AddReturned => OneEntryOfLatestWrite

\* C8 amended: the same for every non-empty path.
C8_IdempotentUpsertOfPath ==
    (AddReturned /\ ret.note_data.path # <<>>) => OneEntryOfLatestWrite

\* a record with a non-empty path has been stored a second time
C8_Witness == AddReturned /\ ret.note_data.path # <<>>

\* C9: distance ordering.  A non-empty result of search whose elements carry
\* distances is ascending in distance.
C9_DistanceOrdering ==
    (/\ ret.op = "search"
     /\ ret.value # <<>>
     /\ \A i \in DOMAIN ret.value : ret.value[i].distance # NoDistance)
    => \A i \in 1..(Len(ret.value) - 1) :
          ret.value[i].distance <= ret.value[i + 1].distance

\* a search of both collections returned a journal before a note that is
\* farther from the query, against the order of the two queries
C9_Witness ==
    /\ ret.op = "search"
    /\ ret.collection_name = "all"
    /\ Len(ret.value) >= 2
    /\ ret.value[1].metadata.is_journal
    /\ ~ret.value[2].metadata.is_journal
    /\ ret.value[1].distance # NoDistance
    /\ ret.value[1].distance < ret.value[2].distance

\* C10: date filter exactness.  search_by_date of the vector store returns
\* at most limit entries, all of them entries of the journals collection
\* whose journal_date is the requested date.
C10_DateFilterExact ==
    ret.op = "store_search_by_date" =>
        /\ Len(ret.value) <= ret.limit
        /\ \A i \in DOMAIN ret.value :
              /\ ret.value[i].metadata.journal_date = ret.date_str
              /\ ret.value[i].metadata.is_journal
              /\ \E j \in DOMAIN journals_collection :
                    /\ journals_collection[j].id = ret.value[i].id
                    /\ journals_collection[j].content = ret.value[i].content
                    /\ journals_collection[j].metadata = ret.value[i].metadata

ScenarioId == <<"p", "a", "g", "e", "s", "_", "t", ".", "m", "d">>

\* the enhancement request for the page of the scenario was answered with
\* "enhanced text" and the store took the write
ScenarioHappened ==
    /\ RunReturned
    /\ Len(log) >= 1
    /\ log[1].kind = "page"
    /\ log[1].asked
    /\ log[1].reply = 200
    /\ log[1].response = Enhanced
    /\ ~log[1].upsert_failed

\* C11: ingestion scenario.  A run over a snapshot whose only page is
\* {title "T", path "pages/t.md", clean_content "short text", not a journal},
\* with the enhancement request answered by "enhanced text", returns
\* pages_processed = 1, enhanced_count = 1, errors = 0 and leaves exactly one
\* entry in the notes collection, for that page, with content "enhanced text".
C11_IngestionScenario ==
    ScenarioHappened =>
        /\ ret.value.pages_processed = 1
        /\ ret.value.enhanced_count = 1
        /\ ret.value.errors = 0
        /\ Len(notes_collection) = 1
        /\ notes_collection[1].id = ScenarioId
        /\ notes_collection[1].content = Enhanced
        /\ notes_collection[1].metadata.title = "T"
        /\ notes_collection[1].metadata.path = corpus.pages[1].path
        /\ ~notes_collection[1].metadata.is_journal

\* the run of the scenario has returned
C11_Witness ==
    /\ ScenarioHappened
    /\ corpus.pages[1].content = ShortText
    /\ Len(notes_collection) = 1

\* C12: query-time search failure is explicit.  When the search of the vector
\* index fails during search_brain or search_by_date, the caller receives a
\* result with an element that carries an error message, and so never the
\* empty result of a successful search without matches.
C12_SearchFailureExplicit ==
    (SearchReturned /\ ret.store_raised) =>
        /\ ret.value # <<>>
        /\ \E i \in DOMAIN ret.value : "error" \in DOMAIN ret.value[i]

ExportFailed ==
    /\ RunReturned
    /\ ~NotReady
    /\ "error" \in DOMAIN ret.value
    /\ ret.value.error = "export failed"

\* C13: run-level failure.  When the export or the reload of the notes fails,
\* the run returns status failed with an error message, all four counters 0,
\* and has made no enhancement request and no write to the vector index; no
\* returned stats have status in_progress.
C13_RunLevelFailure ==
    /\ ExportFailed =>
          /\ ret.value.status = "failed"
          /\ "error" \in DOMAIN ret.value
          /\ ret.value.pages_processed = 0
          /\ ret.value.journals_processed = 0
          /\ ret.value.enhanced_count = 0
          /\ ret.value.errors = 0
          /\ "llm" \notin effects
          /\ "index_write" \notin effects
          /\ log = <<>>
          /\ notes_collection = <<>>
          /\ journals_collection = <<>>
    /\ ret.op = "process_all_notes" => ret.value.status \in {"completed", "failed"}

\* the export failed for a corpus that holds a page and a journal
C13_Witness ==
    /\ ExportFailed
    /\ "export" \in effects
    /\ corpus.pages # <<>>
    /\ corpus.journals # <<>>

\* C14: empty-content records are never stored.  For every page and journal
\* of the snapshot whose parsed clean_content is empty, the run leaves no
\* entry for that record in the vector index, whatever its raw content and
\* whatever the inference service returns.
C14_EmptyNeverStored ==
    /\ \A k \in DOMAIN corpus.pages :
          ~Truthy(corpus.pages[k].clean_content) =>
              /\ <<FALSE, corpus.pages[k].path>> \notin written
              /\ \A j \in DOMAIN notes_collection :
                    notes_collection[j].metadata.path # corpus.pages[k].path
    /\ \A k \in DOMAIN corpus.journals :
          ~Truthy(corpus.journals[k].clean_content) =>
              /\ <<TRUE, corpus.journals[k].path>> \notin written
              /\ \A j \in DOMAIN journals_collection :
                    journals_collection[j].metadata.path # corpus.journals[k].path

\* C15: generate result shape.  A non-streaming generate(prompt) hands its
\* caller a record with the key response when the inference service answered
\* successfully and with the key error otherwise, so the test for the response
\* key made by search_brain and search_by_date succeeds exactly when the
\* service succeeded.
C15_GenerateResultShape ==
    (SearchReturned /\ ret.asked) =>
        /\ ret.llm_response.type = "object"
        /\ ret.reply = 200 => "response" \in ret.llm_response.keys
        /\ ret.reply # 200 => "error" \in ret.llm_response.keys
        /\ ret.key_found <=> ret.reply = 200

ReplyFailed(reply) == reply.status # 200 \/ reply.type = "malformed"

\* C16: error normalization at the boundary of the LLM client.  For
\* process_note, a transport failure, a non-success status and a malformed
\* response body each yield a returned record with the key error, nothing
\* being raised; list_models returns the empty sequence in each of those cases.
C16_ErrorNormalization ==
    /\ (ret.op = "process_note" /\ ReplyFailed(ret.reply)) =>
          /\ ret.value.type = "object"
          /\ "error" \in ret.value.keys
    /\ (ret.op = "list_models" /\ ReplyFailed(ret.reply)) => ret.value = <<>>

\* process_note has returned for a body that could not be parsed
C16_Witness ==
    /\ ret.op = "process_note"
    /\ ret.reply = ReplyMalformedBody
    /\ Truthy(ret.note_content)

OtherTask == ret.task_type \notin {"enhance", "summarize", "tag"}

\* C17 as stated: template fallback.  For every task_type outside enhance,
\* summarize and tag, the request of process_note is the request it sends
\* for task_type "enhance" with the same content.
C17_TemplateFallback ==
    (ret.op = "process_note" /\ OtherTask) =>
        ret.request = ProcessNoteRequest(ret.note_content, "enhance")

\* C17 amended: process_note has four fixed templates.  Every task_type
\* outside enhance, summarize and tag gets the same request, which has the
\* model and stream flag of the request for "enhance" and a prompt of its own
\* around the same content; enhance_note replaces such a task by "enhance",
\* so the request it causes is the one for "enhance".
C17_TemplateFallbackGeneric ==
    /\ (ret.op = "process_note" /\ OtherTask) =>
          LET enhance == ProcessNoteRequest(ret.note_content, "enhance")
          IN  /\ ret.request = ProcessNoteRequest(ret.note_content, "any other")
              /\ ret.request.model = enhance.model
              /\ ret.request.stream = enhance.stream
              /\ ret.request.prompt[2] = ret.note_content
              /\ ret.request.prompt[1] = "Please enhance this note:"
              /\ ret.request.prompt[1] # enhance.prompt[1]
    /\ (ret.op = "enhance_note" /\ ret.asked /\ ret.task \notin {"enhance", "summarize", "tag"}) =>
          ret.request = <<ProcessNoteRequest(ret.note_content, "enhance")>>

\* process_note was called with a task type it does not know
C17_Witness == ret.op = "process_note" /\ OtherTask /\ Truthy(ret.note_content)

\* C18: journals are indexed verbatim.  During a run no enhancement request
\* is made for a journal, add_note is applied to every journal with exactly
\* its parsed clean_content (which is what the journals collection then
\* holds for it), and no journal increments enhanced_count, so that
\* enhanced_count is at most the number of pages of the snapshot.
C18_JournalsVerbatim ==
    /\ \A i \in DOMAIN log :
          log[i].kind = "journal" =>
              LET journal == corpus.journals[log[i].index]
              IN  /\ ~log[i].asked
                  /\ ~log[i].enhanced
                  /\ log[i].add_note
                  /\ log[i].clean_content = journal.clean_content
                  /\ all_notes.journals[log[i].index] = journal
                  /\ (Truthy(journal.clean_content) /\ ~log[i].upsert_failed) => log[i].stored
                  /\ log[i].stored =>
                        \E j \in DOMAIN journals_collection :
                            /\ journals_collection[j].id = NoteId(journal.path)
                            /\ journals_collection[j].content = journal.clean_content
    /\ pc \in {"pages", "journals", "save", "done"} /\ stats # NoStats =>
          /\ stats.enhanced_count =
                Cardinality({i \in DOMAIN log : log[i].kind = "page" /\ log[i].enhanced})
          /\ stats.enhanced_count <= Len(corpus.pages)

\* a completed run that enhanced a page and stored a journal
C18_Witness ==
    /\ RunReturned
    /\ ret.value.status = "completed"
    /\ ret.value.enhanced_count >= 1
    /\ \E i \in DOMAIN log : log[i].kind = "journal" /\ log[i].stored

BothRunsCompleted ==
    /\ previous # NoRun
    /\ RunReturned
    /\ previous.value.status = "completed"
    /\ ret.value.status = "completed"

\* the notes handled by the second run, each with its place in the first
SecondRun == {i \in DOMAIN log : i > previous.handled}

\* the inference service gave the second run the replies it gave the first
SameReplies ==
    \A i \in SecondRun : log[i].service = log[i - previous.handled].service

\* the store took and refused in the second run the writes it took and
\* refused in the first
SameWrites ==
    \A i \in SecondRun : log[i].upsert_failed = log[i - previous.handled].upsert_failed

\* the ids and contents that a collection holds
Holdings(collection) == {<<collection[i].id, collection[i].content>> : i \in DOMAIN collection}

\* what C19 says of two runs
IndexAndCountersKept ==
    /\ Holdings(notes_collection) = Holdings(previous.notes)
    /\ Holdings(journals_collection) = Holdings(previous.journals)
    /\ Len(notes_collection) = Len(previous.notes)
    /\ Len(journals_collection) = Len(previous.journals)
    /\ Cardinality({notes_collection[i].id : i \in DOMAIN notes_collection})
          = Len(notes_collection)
    /\ Cardinality({journals_collection[i].id : i \in DOMAIN journals_collection})
          = Len(journals_collection)
    /\ ret.value.pages_processed = previous.value.pages_processed
    /\ ret.value.journals_processed = previous.value.journals_processed
    /\ ret.value.enhanced_count = previous.value.enhanced_count
    /\ ret.value.errors = previous.value.errors

\* C19 as stated: note-level idempotence of ingestion.  Two runs in sequence
\* over the same snapshot, the inference service giving the same reply for
\* the same input, leave the index with the ids and contents it had after
\* the first run, no entry being duplicated, and return the same counters.
C19_RerunIdempotent == (BothRunsCompleted /\ SameReplies) => IndexAndCountersKept

\* C19 amended: the same for two runs in which the store also takes and
\* refuses the same writes.
C19_RerunIdempotentSameWrites ==
    (BothRunsCompleted /\ SameReplies /\ SameWrites) => IndexAndCountersKept

\* the second run has returned after both runs enhanced the page and stored
\* it and a journal
C19_Witness ==
    /\ BothRunsCompleted
    /\ SameReplies
    /\ SameWrites
    /\ ret.value.enhanced_count >= 1
    /\ Len(notes_collection) = 1
    /\ Len(journals_collection) = 1
    /\ Len(log) = 4

\* the entries of both collections, as <<is_journal, id, content>>
UnionOfCollections ==
    {<<FALSE, notes_collection[i].id, notes_collection[i].content>> :
        i \in DOMAIN notes_collection}
    \cup {<<TRUE, journals_collection[i].id, journals_collection[i].content>> :
            i \in DOMAIN journals_collection}

Returned(results) ==
    {<<results[i].metadata.is_journal, results[i].id, results[i].content>> :
        i \in DOMAIN results}

SearchedAll ==
    /\ ret.op = "search"
    /\ ret.collection_name = "all"
    /\ ret.limit >= 0
    /\ ~ret.query_raised
    /\ \A i \in DOMAIN ret.value : ret.value[i].distance # NoDistance

\* C20: the merge is a global top-k.  A search of scope all for a limit that
\* is a count, which the store answers with distances, returns min(limit, size of the union) results,
\* each a different entry of the union of both collections with its distance
\* to the query, and no entry left out is nearer than an entry returned.
C20_GlobalTopK ==
    SearchedAll =>
        LET results == ret.value
            size == Cardinality(UnionOfCollections)
        IN  /\ Len(results) <= ret.limit
            /\ Len(results) = IF size < ret.limit THEN size ELSE ret.limit
            /\ Returned(results) \subseteq UnionOfCollections
            /\ Cardinality(Returned(results)) = Len(results)
            /\ \A i \in DOMAIN results :
                  results[i].distance = Abs(ret.query.vec - results[i].content.vec)
            /\ \A e \in UnionOfCollections \ Returned(results) :
                  \A i \in DOMAIN results :
                      results[i].distance <= Abs(ret.query.vec - e[3].vec)

\* a search of both collections, each holding an entry, was cut to one
\* result: the journal, which is nearer to the query than the note
C20_Witness ==
    /\ SearchedAll
    /\ notes_collection # <<>>
    /\ journals_collection # <<>>
    /\ ret.limit = 1
    /\ Len(ret.value) = 1
    /\ ret.value[1].metadata.is_journal
    /\ \A i \in DOMAIN notes_collection :
          ret.value[1].distance < Abs(ret.query.vec - notes_collection[i].content.vec)

\* the entry that the add_note of this step stored, is in the collection
HoldsStored(collection, returned) ==
    \E i \in DOMAIN collection :
        /\ collection[i].id = returned.id
        /\ collection[i].content = returned.note_data.clean_content
        /\ collection[i].metadata.path = returned.note_data.path

\* what one step of add_note does to the two collections
AddNoteFrame ==
    (ret'.op = "add_note" /\ ops' = ops + 1) =>
        /\ ~Truthy(ret'.note_data.clean_content) =>
              /\ ret'.none
              /\ ret'.id = <<>>
              /\ UNCHANGED <<notes_collection, journals_collection>>
        /\ ret'.none => UNCHANGED <<notes_collection, journals_collection>>
        /\ (~ret'.none /\ ret'.note_data.is_journal) =>
              /\ UNCHANGED notes_collection
              /\ HoldsStored(journals_collection', ret')
        /\ (~ret'.none /\ ~ret'.note_data.is_journal) =>
              /\ UNCHANGED journals_collection
              /\ HoldsStored(notes_collection', ret')

\* C21: add_note with empty clean_content is a no-op on the index: it returns
\* no id and leaves both collections unchanged; add_note that stores a record
\* with non-empty content writes it to the journals collection iff is_journal
\* is true and leaves the other collection unchanged.
C21_AddNoteFrame == [][AddNoteFrame]_vars

\* a journal has been stored while the notes collection holds an entry
C21_Witness ==
    /\ ret.op = "add_note"
    /\ ~ret.none
    /\ ret.note_data.is_journal
    /\ notes_collection # <<>>
    /\ journals_collection # <<>>

\* C22: fallback id by kind.  When add_note stores a record whose path is
\* empty, the id is note_<n> for a page and journal_<n> for a journal, n
\* being the number of entries of the record's own target collection.
C22_FallbackIdByKind ==
    (ret.op = "add_note" /\ ~ret.none /\ ret.note_data.path = <<>>) =>
        ret.id = (IF ret.note_data.is_journal
                  THEN <<"j", "o", "u", "r", "n", "a", "l", "_">>
                  ELSE <<"n", "o", "t", "e", "_">>) \o NumStr(ret.size_before)

\* the lines of a stream that are chunks
IsChunk(line) == line.kind = "chunk"

HasFragment(line) == line.kind = "chunk" /\ "response" \in line.keys

RECURSIVE ConcatFragments(_)
\* the fragments of the chunks of a stream, joined in arrival order
ConcatFragments(lines) ==
    IF lines = <<>> THEN <<>>
    ELSE (IF HasFragment(Head(lines)) THEN Head(lines).response ELSE <<>>)
         \o ConcatFragments(Tail(lines))

\* the service delivers a finite sequence of chunks to a streaming generate
\* that the consumer is iterating
StreamDelivered ==
    /\ gen.state \in {"suspended", "returned", "closed"}
    /\ gen.reply.status = 200
    /\ \A i \in DOMAIN gen.reply.lines : gen.reply.lines[i].kind # "malformed"

\* the lines that the generator has read
LinesRead == SubSeq(gen.reply.lines, 1, Len(gen.reply.lines) - Len(gen.rest))

\* what C23 says of a stream, for the chunks that are to reach the consumer
StreamAccumulated(Handed(_)) ==
    StreamDelivered =>
        /\ gen.state = "suspended" =>
              /\ gen.yielded = SelectSeq(LinesRead, Handed)
              /\ gen.full_response = ConcatFragments(LinesRead)
        /\ gen.state = "returned" =>
              /\ gen.yielded = SelectSeq(gen.reply.lines, Handed)
              /\ gen.value.type = "object"
              /\ "response" \in gen.value.keys
              /\ gen.value.response = ConcatFragments(gen.reply.lines)
              /\ ret.op = "generate_stream" => ret.value = gen.value

\* C23 as stated: streaming accumulation.  For every finite sequence of
\* chunks that the service delivers to a streaming generate, the chunks are
\* handed to the consumer in arrival order, and the final accumulated
\* response is the concatenation, in that order, of the fragments of all
\* chunks, a chunk without a fragment adding nothing.
C23_StreamingAccumulation == StreamAccumulated(IsChunk)

\* C23 amended: the chunks handed to the consumer, in arrival order, are
\* those that carry a fragment; a chunk without a fragment is not handed
\* over and adds nothing.  The final accumulated response is the
\* concatenation of the fragments of all chunks, and at every chunk handed
\* over the accumulated response is the concatenation of the fragments read
\* so far.
C23_StreamingAccumulationOfFragments == StreamAccumulated(HasFragment)

\* a stream of three chunks, two different fragments around a chunk without
\* a fragment, was read to its end: the consumer was handed the two chunks
\* with a fragment
C23_Witness ==
    /\ StreamDelivered
    /\ gen.state = "returned"
    /\ Len(gen.reply.lines) = 3
    /\ gen.reply.lines[1] = Chunk(<<"b", "c">>)
    /\ gen.reply.lines[2] = ChunkNoFragment
    /\ gen.reply.lines[3] = Chunk(<<"a">>)
    /\ gen.value.response = <<"b", "c", "a">>
    /\ gen.yielded = <<Chunk(<<"b", "c">>), Chunk(<<"a">>)>>

InCollection(collection, result) ==
    \E j \in DOMAIN collection :
        /\ collection[j].id = result.id
        /\ collection[j].content = result.content
        /\ collection[j].metadata = result.metadata

FromNotes(result) == ~result.metadata.is_journal /\ InCollection(notes_collection, result)

FromJournals(result) ==
    result.metadata.is_journal /\ InCollection(journals_collection, result)

\* search_brain has had an answer from the vector index
BrainSearched == ret.op = "search_brain" /\ ret.ready /\ ~ret.store_raised

\* C24: scope selects collections.  A search of scope notes returns only
\* entries of the notes collection, of scope journals only entries of the
\* journals collection, of scope all entries of both (of each collection
\* that held one when the index was read, for a limit of two); for any other
\* scope the result of the index is empty and search_brain returns the empty
\* sequence without a request to the LLM client.
C24_ScopeSelectsCollections ==
    BrainSearched =>
        LET raw == ret.raw
            notes_held == ret.held[1] > 0
            journals_held == ret.held[2] > 0
        IN  /\ ret.collection = "notes" =>
                  /\ \A i \in DOMAIN raw : FromNotes(raw[i])
                  /\ (notes_held /\ ret.limit >= 1) => raw # <<>>
            /\ ret.collection = "journals" =>
                  /\ \A i \in DOMAIN raw : FromJournals(raw[i])
                  /\ (journals_held /\ ret.limit >= 1) => raw # <<>>
            /\ ret.collection = "all" =>
                  /\ \A i \in DOMAIN raw : FromNotes(raw[i]) \/ FromJournals(raw[i])
                  /\ ((notes_held \/ journals_held) /\ ret.limit >= 1) => raw # <<>>
                  /\ (notes_held /\ journals_held /\ ret.limit >= 2) =>
                        /\ \E i \in DOMAIN raw : FromNotes(raw[i])
                        /\ \E i \in DOMAIN raw : FromJournals(raw[i])
            /\ ret.collection \notin {"all", "notes", "journals"} =>
                  /\ raw = <<>>
                  /\ ret.value = <<>>
                  /\ ~ret.asked

\* a search of the journals alone found one while the notes hold an entry
C24_Witness ==
    /\ BrainSearched
    /\ ret.collection = "journals"
    /\ ret.raw # <<>>
    /\ notes_collection # <<>>

\* what a collection holds, order apart
Entries(collection) == {collection[i] : i \in DOMAIN collection}

\* the batch of the call holds pairwise distinct non-empty paths and the
\* store accepted its writes
BatchOfDistinctPaths ==
    /\ ret.op = "add_notes_batch"
    /\ ~ret.raised
    /\ \A i \in DOMAIN ret.notes_data : ret.notes_data[i].path # <<>>
    /\ \A i, j \in DOMAIN ret.notes_data :
          i # j => ret.notes_data[i].path # ret.notes_data[j].path

\* C25: add_notes_batch agrees with add_note.  For every batch of records
\* with pairwise distinct non-empty paths, add_notes_batch leaves out the
\* records of empty content and leaves both collections as add_note applied
\* to each record in order leaves them: same ids, contents and metadata.
C25_BatchAgreesWithOne ==
    BatchOfDistinctPaths =>
        /\ Entries(notes_collection) = Entries(ret.one_by_one.notes)
        /\ Entries(journals_collection) = Entries(ret.one_by_one.journals)

\* a request went through process_all_notes with every component built,
\* its own export of the notes succeeded and its stats file could be written
RanToTheEnd(r) ==
    /\ IsReady(components)
    /\ requests[r].pc = "done"
    /\ ~requests[r].export_raised
    /\ ~("error" \in DOMAIN requests[r].stats
          /\ requests[r].stats.error = "stats file not written")

\* C26: runs do not interfere.  When two runs of process_all_notes over the
\* same notes interleave, each run ends with the status completed and with
\* the counters it returns alone: every page counted as processed or as an
\* error, every journal counted as processed.
C26_RunsDoNotInterfere ==
    \A r \in Requests :
        RanToTheEnd(r) =>
            /\ requests[r].stats.status = "completed"
            /\ requests[r].stats.pages_processed + requests[r].stats.errors
                   = Len(corpus.pages)
            /\ requests[r].stats.journals_processed = Len(corpus.journals)

\* add_note stored a record that differs from every record stored before in
\* its collection: its path is new there, or it has no path
AddedDistinctRecord ==
    /\ ret.op = "add_note"
    /\ ~ret.none
    /\ (ret.note_data.path = <<>> \/ ~ret.again)

\* C27: distinct records never overwrite each other.  After add_note stored
\* a record that is distinct from the records stored before in the same
\* collection (another path, or no path), the collection holds one more
\* entry than before: no two paths derive the same id and no two records
\* without a path get the same fallback id.
C27_DistinctRecordsKeptApart ==
    AddedDistinctRecord => Len(TargetCollection) = ret.size_before + 1

\* a run ended with the status completed and none of its index writes failed
CompletedWithoutWriteFailure ==
    /\ pc = "done"
    /\ stats.status = "completed"
    /\ \A k \in DOMAIN log : ~log[k].upsert_failed

\* the notes collection holds an entry for the page
PageIndexed(page) ==
    \E i \in DOMAIN notes_collection : notes_collection[i].id = NoteId(page.path)

\* C28: no indexable page is lost to enhancement.  After a run that ends
\* with the status completed and in which no index write fails, every page
\* of the notes whose parsed clean_content is non-empty has an entry in the
\* notes collection, whatever the inference service answered.
C28_NoPageLostToEnhancement ==
    CompletedWithoutWriteFailure =>
        \A i \in DOMAIN corpus.pages :
            Truthy(corpus.pages[i].clean_content) => PageIndexed(corpus.pages[i])

\* the notes of one kind for which the run's add_note wrote an entry
StoredByRun(kind) == {k \in DOMAIN log : log[k].kind = kind /\ log[k].stored}

\* C29: the processed counters count stored entries.  At the end of every
\* run pages_processed is the number of pages whose add_note wrote an entry
\* to the notes collection and journals_processed the number of journals
\* written to the journals collection: a note whose write was skipped for
\* empty content, or failed, is not counted as processed.
C29_ProcessedCountsStored ==
    (pc = "done" /\ ret.op = "process_all_notes" /\ IsReady(components)) =>
        /\ stats.pages_processed = Cardinality(StoredByRun("page"))
        /\ stats.journals_processed = Cardinality(StoredByRun("journal"))

SearchOps == {"search_brain", "search_by_date"}

\* what every step of a search leaves alone, and when the search asks the
\* inference service: once, while it waits between its two steps
QueryFrame ==
    (searching' # searching \/ ret'.op \in SearchOps) =>
        /\ notes_collection' = notes_collection
        /\ journals_collection' = journals_collection
        /\ stats_files' = stats_files
        /\ (searching' # NoSearch /\ searching'.left = <<>>) => searching'.raw # <<>>
        /\ (ret'.op \in SearchOps /\ ret'.ready) =>
               /\ ret'.llm_requests <= 1
               /\ ret'.llm_requests > 0 => ret'.raw # <<>>
               /\ ret'.llm_requests > 0 => (searching # NoSearch /\ searching.left = <<>>)

\* C30: queries are read-only and search before they summarize.  Every call
\* of search_brain and search_by_date, whatever its outcome, leaves both
\* collections and the stats files unchanged, makes at most one request to
\* the inference service, and makes it only after the index returned a
\* non-empty result.
C30_QueriesReadOnly == [][QueryFrame]_vars

\* a date search over a non-empty index has asked the inference service
C30_Witness ==
    /\ ret.op = "search_by_date"
    /\ ret.ready
    /\ ret.llm_requests = 1
    /\ journals_collection # <<>>
    /\ stats_files # {}

====
